---------------------------- MODULE Spec2Model ----------------------------
(***************************************************************************)
(* A model of army-slot-machines/financial_statement_extractor.py: the     *)
(* FinancialStatementExtractor that classifies a paginated financial       *)
(* statement, slices each page into sections, parses line items and        *)
(* summary lines, and merges them page after page.                         *)
(*                                                                         *)
(* Text is modelled character by character: a Python str is a sequence of  *)
(* one-character strings, so that substring search, splitting, stripping   *)
(* and the regular expressions act on the same characters as in the code.  *)
(* An amount (a Python float obtained from a decimal literal) is modelled  *)
(* as an integer number of 10^-FracDigits units.                           *)
(***************************************************************************)
EXTENDS Integers, Sequences, FiniteSets, TLC

VARIABLES
    pdf_pages,       \* page.extract_text() of every page of self.pdf_path, in order
    statement_type,  \* the attribute self.statement_type
    pc,              \* position of the running method
    page_no,         \* 1-based index of the next page of the `for page in pdf.pages` loop
    detected,        \* local `statement_type` of extract_financial_data
    financial_data,  \* the dictionary an extraction accumulates and returns
    call,            \* arguments of the private helper under check (helper specifications)
    ret              \* what that helper returned

vars == <<pdf_pages, statement_type, pc, page_no, detected, financial_data, call, ret>>

-----------------------------------------------------------------------------
(* Bounds of the model *)

\* longest text handed to _extract_section in SpecSlice
MaxTextLen == 5

\* longest amount token enumerated in SpecAmount
MaxTokenLen == 4

\* most lines of a section handed to the line parsers in SpecLine
MaxSectionLines == 2

\* most pages of a document in Spec
MaxPages == 2

-----------------------------------------------------------------------------
(* Python str primitives *)

None == "None"

NL == "\n"

Whitespace == {" ", NL, "\t"}

Digits == {"0", "1", "2", "3", "4", "5", "6", "7", "8", "9"}

\* text[a:b] for 0 <= a, 0 <= b
Slice(text, a, b) == SubSeq(text, a + 1, IF b > Len(text) THEN Len(text) ELSE b)

\* text[a:]
SliceFrom(text, a) == SubSeq(text, a + 1, Len(text))

\* sub occurs in text at 0-based index i
MatchesAt(text, sub, i) ==
    /\ i >= 0
    /\ i + Len(sub) <= Len(text)
    /\ \A k \in 1..Len(sub) : text[i + k] = sub[k]

\* the least member of a non-empty set of integers
Lowest(S) == CHOOSE k \in S : \A m \in S : k <= m

find_scan(text, sub, i) ==
    LET hits == {k \in i..(Len(text) - Len(sub)) : MatchesAt(text, sub, k)}
    IN  IF hits = {} THEN -1 ELSE Lowest(hits)

\* text.find(sub, start): the lowest index >= start where sub occurs, or -1;
\* a negative start counts from the end of the text
find(text, sub, start) ==
    LET from == IF start >= 0 THEN start
                ELSE IF Len(text) + start >= 0 THEN Len(text) + start
                ELSE 0
    IN  find_scan(text, sub, from)

\* sub in text
Contains(text, sub) == find(text, sub, 0) # -1

\* text.startswith(prefix)
startswith(text, prefix) == MatchesAt(text, prefix, 0)

\* text.endswith(suffix)
endswith(text, suffix) == MatchesAt(text, suffix, Len(text) - Len(suffix))

\* the first index j >= i (1-based) with s[j] \notin S, or Len(s) + 1
RECURSIVE run_end(_, _, _)
run_end(s, i, S) ==
    IF i > Len(s) \/ s[i] \notin S THEN i ELSE run_end(s, i + 1, S)

\* the last index j <= i (1-based) with s[j] \notin S, or 0
RECURSIVE run_begin(_, _, _)
run_begin(s, i, S) ==
    IF i < 1 \/ s[i] \notin S THEN i ELSE run_begin(s, i - 1, S)

\* s.strip()
strip(s) == SubSeq(s, run_end(s, 1, Whitespace), run_begin(s, Len(s), Whitespace))

\* the first index j >= i (1-based) with s[j] = c, or Len(s) + 1
index_of(s, i, c) == Lowest({j \in i..Len(s) : s[j] = c} \cup {Len(s) + 1})

RECURSIVE split_from(_, _)
split_from(text, i) ==
    LET j == index_of(text, i, NL)
    IN  IF j > Len(text) THEN <<SubSeq(text, i, Len(text))>>
        ELSE <<SubSeq(text, i, j - 1)>> \o split_from(text, j + 1)

\* text.split('\n')
split(text) == split_from(text, 1)

\* s.replace(',', '')
replace_commas(s) == SelectSeq(s, LAMBDA c : c # ",")

-----------------------------------------------------------------------------
(* Amounts: re.findall(r'[\d,]+\.?\d*-?', line) and the conversion loop *)

\* fractional digits an amount of the model carries at most
FracDigits == 2

\* the integer that stands for the float 1.0
Scale == 10 ^ FracDigits

AmountStart == Digits \cup {","}

\* the index just after the match of [\d,]+\.?\d*-? that begins at index i
amount_end(line, i) ==
    LET a == run_end(line, i, AmountStart)
        b == IF a <= Len(line) /\ line[a] = "." THEN a + 1 ELSE a
        c == run_end(line, b, Digits)
    IN  IF c <= Len(line) /\ line[c] = "-" THEN c + 1 ELSE c

RECURSIVE findall_from(_, _)
findall_from(line, i) ==
    IF i > Len(line) THEN <<>>
    ELSE IF line[i] \in AmountStart
         THEN LET e == amount_end(line, i)
              IN  <<SubSeq(line, i, e - 1)>> \o findall_from(line, e)
         ELSE findall_from(line, i + 1)

\* re.findall(r'[\d,]+\.?\d*-?', line): the matches, left to right, not overlapping
findall_amounts(line) == findall_from(line, 1)

DigitSeq == <<"0", "1", "2", "3", "4", "5", "6", "7", "8", "9">>

DigitVal(c) == (CHOOSE i \in 1..10 : DigitSeq[i] = c) - 1

\* the digits of s[i..j] read as a decimal integer, continuing from acc
RECURSIVE int_of(_, _, _, _)
int_of(s, i, j, acc) ==
    IF i > j THEN acc ELSE int_of(s, i + 1, j, 10 * acc + DigitVal(s[i]))

\* float(s) for s made of digits and at most one point: raises ValueError when s
\* holds no digit; the value is in units of 1/Scale (digits after the first
\* FracDigits fractional ones are beyond the model's amounts)
to_float(s) ==
    LET p    == index_of(s, 1, ".")
        frac == SubSeq(s, p + 1, Len(s))
        used == IF Len(frac) > FracDigits THEN FracDigits ELSE Len(frac)
    IN  IF \A i \in 1..Len(s) : s[i] \notin Digits
        THEN [raised |-> TRUE, value |-> 0]
        ELSE [raised |-> FALSE,
              value  |-> int_of(s, 1, p - 1, 0) * Scale
                         + int_of(frac, 1, used, 0) * 10 ^ (FracDigits - used)]

\* a slip: the trailing minus is dropped without negating
parse_amount_unsigned(amount_str) ==
    LET clean == replace_commas(amount_str)
    IN  IF endswith(clean, <<"-">>)
        THEN to_float(SubSeq(clean, 1, Len(clean) - 1))
        ELSE to_float(clean)

\* the body of `for amount_str in amounts[:n]`: one token to one float
\* a slip: the amount is negated whether or not a minus follows it
parse_amount_negated(amount_str) ==
    LET clean == replace_commas(amount_str)
        f     == to_float(SelectSeq(clean, LAMBDA ch : ch # "-"))
    IN  [raised |-> f.raised, value |-> -f.value]

parse_amount(amount_str) ==
    LET clean == replace_commas(amount_str)
    IN  IF endswith(clean, <<"-">>)
        THEN LET f == to_float(SubSeq(clean, 1, Len(clean) - 1))
             IN  [raised |-> f.raised, value |-> -f.value]
        ELSE to_float(clean)

-----------------------------------------------------------------------------
(* Python dict: insertion-ordered pairs <<key, value>> with distinct keys *)

EmptyDict == <<>>

DictKeys(d) == [i \in DOMAIN d |-> d[i][1]]

DictHas(d, k) == \E i \in DOMAIN d : d[i][1] = k

\* d[k]
DictGet(d, k) == d[CHOOSE i \in DOMAIN d : d[i][1] = k][2]

\* a slip: the assignment starts a new dictionary
DictSet_fresh(d, k, v) == <<<<k, v>>>>

\* d[k] = v: a key already present keeps its place
DictSet(d, k, v) ==
    IF DictHas(d, k)
    THEN [i \in DOMAIN d |-> IF d[i][1] = k THEN <<k, v>> ELSE d[i]]
    ELSE Append(d, <<k, v>>)

RECURSIVE update_from(_, _, _)
update_from(d, other, i) ==
    IF i > Len(other) THEN d
    ELSE update_from(DictSet(d, other[i][1], other[i][2]), other, i + 1)

\* a slip: keys already present are kept (setdefault instead of update)
DictUpdate_keep_first(d, other) ==
    d \o SelectSeq(other, LAMBDA kv : ~DictHas(d, kv[1]))

\* d.update(other)
DictUpdate(d, other) == update_from(d, other, 1)

-----------------------------------------------------------------------------
(* Line items: _parse_budget_actual_items and _parse_branch_items *)

\* columns of an operating-results line
OperatingArity == 6

\* columns of a branch-breakdown line
BranchArity == 4

operating_record(values) ==
    [march_actual   |-> values[1],
     march_budget   |-> values[2],
     march_variance |-> values[3],
     ytd_actual     |-> values[4],
     ytd_budget     |-> values[5],
     ytd_variance   |-> values[6]]

branch_record(values) ==
    [armp_total |-> values[1],
     army       |-> values[2],
     navy       |-> values[3],
     usmc       |-> values[4]]

\* the try block: amounts[:n] converted in order; raised when a conversion raises
\* ValueError or when values[n - 1] does not exist (IndexError)
parse_values(amounts, n) ==
    LET m      == IF Len(amounts) < n THEN Len(amounts) ELSE n
        parsed == [i \in 1..m |-> parse_amount(amounts[i])]
    IN  [raised |-> (\E i \in 1..m : parsed[i].raised) \/ m < n,
         values |-> [i \in 1..m |-> parsed[i].value]]

RECURSIVE label_scan(_, _)
label_scan(line, k) ==
    IF k + 1 > Len(line) \/ line[k] = NL THEN -1
    ELSE IF /\ line[k + 1] \in Whitespace
            /\ LET j == run_end(line, k + 1, Whitespace)
               IN  j <= Len(line) /\ line[j] \in AmountStart
         THEN k
         ELSE label_scan(line, k + 1)

\* re.match(r'^(.+?)\s+[\d,]', line): the length of group 1, or -1 for no match
label_match(line) == label_scan(line, 1)

NoItem == [store |-> FALSE, raised |-> FALSE, item_name |-> <<>>, values |-> <<>>]

\* a slip: a line with too few amounts is recorded, the missing columns as 0.0
line_item_partial(raw, n) ==
    LET line == strip(raw)
    IN  IF line = <<>> \/ startswith(line, <<"-">>) \/ startswith(line, <<"=">>)
        THEN NoItem
        ELSE LET amounts == findall_amounts(line)
                 k       == label_match(line)
                 pv      == parse_values(amounts \o [i \in 1..n |-> <<"0">>], n)
             IN  IF Len(amounts) >= 1 /\ k # -1 /\ ~pv.raised
                 THEN [store |-> TRUE, raised |-> FALSE,
                       item_name |-> strip(SubSeq(line, 1, k)), values |-> pv.values]
                 ELSE NoItem

\* a slip: the columns are taken from the end of the line (amounts[-n:])
line_item_last_columns(raw, n) ==
    LET line == strip(raw)
    IN  IF line = <<>> \/ startswith(line, <<"-">>) \/ startswith(line, <<"=">>)
        THEN NoItem
        ELSE LET amounts == findall_amounts(line)
                 k       == label_match(line)
                 pv      == parse_values(SubSeq(amounts, Len(amounts) - n + 1, Len(amounts)), n)
             IN  IF Len(amounts) >= n /\ k # -1
                 THEN IF pv.raised
                      THEN [NoItem EXCEPT !.raised = TRUE]
                      ELSE [store |-> TRUE, raised |-> FALSE,
                            item_name |-> strip(SubSeq(line, 1, k)), values |-> pv.values]
                 ELSE NoItem

\* the body of `for line in lines` for one line and n columns: whether an item
\* is stored, under which name, with which values, and whether the try block
\* raised
line_item(raw, n) ==
    LET line == strip(raw)
    IN  IF line = <<>> \/ startswith(line, <<"-">>) \/ startswith(line, <<"=">>)
        THEN NoItem
        ELSE LET amounts == findall_amounts(line)
                 k       == label_match(line)
                 pv      == parse_values(amounts, n)
             IN  IF Len(amounts) >= n /\ k # -1
                 THEN IF pv.raised
                      THEN [NoItem EXCEPT !.raised = TRUE]
                      ELSE [store |-> TRUE, raised |-> FALSE,
                            item_name |-> strip(SubSeq(line, 1, k)), values |-> pv.values]
                 ELSE NoItem

\* a slip: `break` instead of `continue` in the except clause
RECURSIVE parse_lines_abort(_, _, _, _)
parse_lines_abort(lines, i, n, items) ==
    IF i > Len(lines) THEN items
    ELSE LET r == line_item(lines[i], n)
         IN  IF r.raised THEN items
             ELSE parse_lines_abort(lines, i + 1, n,
                      IF r.store THEN DictSet(items, r.item_name, r.values) ELSE items)

\* the loop over the lines of a section, from line i on
RECURSIVE parse_lines(_, _, _, _)
parse_lines(lines, i, n, items) ==
    IF i > Len(lines) THEN items
    ELSE LET r == line_item(lines[i], n)
         IN  parse_lines(lines, i + 1, n,
                 IF r.store THEN DictSet(items, r.item_name, r.values) ELSE items)

_parse_budget_actual_items(section_text) ==
    LET items == parse_lines(split(section_text), 1, OperatingArity, EmptyDict)
    IN  [i \in DOMAIN items |-> <<items[i][1], operating_record(items[i][2])>>]

_parse_branch_items(section_text) ==
    LET items == parse_lines(split(section_text), 1, BranchArity, EmptyDict)
    IN  [i \in DOMAIN items |-> <<items[i][1], branch_record(items[i][2])>>]

-----------------------------------------------------------------------------
(* Summary lines: _extract_summary_line and _extract_branch_summary_line *)

\* the loop over the lines of a page, from line i on: the values of the first
\* line that holds the identifier and n amounts that convert, or <<>>
RECURSIVE summary_scan(_, _, _, _)
summary_scan(lines, i, line_identifier, n) ==
    IF i > Len(lines) THEN <<>>
    ELSE LET amounts == findall_amounts(lines[i])
             pv      == parse_values(amounts, n)
         IN  IF Contains(lines[i], line_identifier) /\ Len(amounts) >= n /\ ~pv.raised
             THEN pv.values
             ELSE summary_scan(lines, i + 1, line_identifier, n)

\* a slip: a line that is not found gives a record of zeros
_extract_summary_line_zeros(text, line_identifier) ==
    LET values == summary_scan(split(text), 1, line_identifier, OperatingArity)
    IN  IF values = <<>> THEN operating_record(<<0, 0, 0, 0, 0, 0>>)
        ELSE operating_record(values)

_extract_summary_line(text, line_identifier) ==
    LET values == summary_scan(split(text), 1, line_identifier, OperatingArity)
    IN  IF values = <<>> THEN EmptyDict ELSE operating_record(values)

_extract_branch_summary_line(text, line_identifier) ==
    LET values == summary_scan(split(text), 1, line_identifier, BranchArity)
    IN  IF values = <<>> THEN EmptyDict ELSE branch_record(values)

-----------------------------------------------------------------------------
(* _extract_section *)

\* a slip: the end marker is searched from the beginning of the text
_extract_section_from_zero(text, start_marker, end_marker) ==
    LET start_idx == find(text, start_marker, 0)
        end_idx   == find(text, end_marker, 0)
    IN  IF start_idx # -1 /\ end_idx # -1 THEN Slice(text, start_idx, end_idx)
        ELSE IF start_idx # -1 THEN SliceFrom(text, start_idx)
        ELSE <<>>

\* a slip: no fallback when the end marker is missing
_extract_section_no_fallback(text, start_marker, end_marker) ==
    LET start_idx == find(text, start_marker, 0)
        end_idx   == find(text, end_marker, start_idx)
    IN  IF start_idx # -1 /\ end_idx # -1 THEN Slice(text, start_idx, end_idx)
        ELSE <<>>

_extract_section(text, start_marker, end_marker) ==
    LET start_idx == find(text, start_marker, 0)
        end_idx   == find(text, end_marker, start_idx)
    IN  IF start_idx # -1 /\ end_idx # -1 THEN Slice(text, start_idx, end_idx)
        ELSE IF start_idx # -1 THEN SliceFrom(text, start_idx)
        ELSE <<>>

-----------------------------------------------------------------------------
(* Balance-sheet items: _parse_financial_items *)

\* re.search(r'(.+?)\s+([\d,]+\.?\d*)-?$', line) on a line without newline: the
\* length of group 1 (the match begins at index 0 when there is one: group 1 takes
\* any characters), or -1 for no match. No shorter alternative of the amount
\* pattern reaches further than the greedy one, so the amount must run to the end.
RECURSIVE amount_at_end_scan(_, _)
amount_at_end_scan(line, k) ==
    IF k + 1 > Len(line) \/ line[k] = NL THEN -1
    ELSE IF /\ line[k + 1] \in Whitespace
            /\ LET j == run_end(line, k + 1, Whitespace)
               IN  /\ j <= Len(line)
                   /\ line[j] \in AmountStart
                   /\ amount_end(line, j) = Len(line) + 1
         THEN k
         ELSE amount_at_end_scan(line, k + 1)

\* a slip: only the prefix Cash-- is removed
strip_prefix_cash_only(item_name) ==
    IF startswith(item_name, <<"C", "a", "s", "h", "-", "-">>)
    THEN SliceFrom(item_name, 6)
    ELSE item_name

\* re.sub(r'^(Cash--|Less\s+)', '', item_name)
strip_prefix(item_name) ==
    IF startswith(item_name, <<"C", "a", "s", "h", "-", "-">>)
    THEN SliceFrom(item_name, 6)
    ELSE IF /\ startswith(item_name, <<"L", "e", "s", "s">>)
            /\ Len(item_name) >= 5
            /\ item_name[5] \in Whitespace
         THEN SubSeq(item_name, run_end(item_name, 5, Whitespace), Len(item_name))
         ELSE item_name

\* a slip: the sign is looked for on group 2, which never holds the minus
financial_item_captured_sign(raw) ==
    LET line == strip(raw)
        k    == amount_at_end_scan(line, 1)
    IN  IF k = -1 THEN NoItem
        ELSE LET j      == run_end(line, k + 1, Whitespace)
                 e      == amount_end(line, j)
                 tok    == SubSeq(line, j, e - 1)
                 group2 == IF endswith(tok, <<"-">>) THEN SubSeq(tok, 1, Len(tok) - 1) ELSE tok
                 f      == to_float(replace_commas(group2))
             IN  IF f.raised THEN [NoItem EXCEPT !.raised = TRUE]
                 ELSE [store |-> TRUE, raised |-> FALSE,
                       item_name |-> strip_prefix(strip(SubSeq(line, 1, k))),
                       values |-> IF endswith(group2, <<"-">>) THEN -f.value ELSE f.value]

\* the body of `for line in lines` for one line of a balance sheet
financial_item(raw) ==
    LET line == strip(raw)
        k    == amount_at_end_scan(line, 1)
    IN  IF k = -1 THEN NoItem
        ELSE LET j      == run_end(line, k + 1, Whitespace)
                 e      == amount_end(line, j)
                 tok    == SubSeq(line, j, e - 1)
                 group2 == IF endswith(tok, <<"-">>) THEN SubSeq(tok, 1, Len(tok) - 1) ELSE tok
                 f      == to_float(replace_commas(group2))
             IN  IF f.raised THEN [NoItem EXCEPT !.raised = TRUE]
                 ELSE [store |-> TRUE, raised |-> FALSE,
                       item_name |-> strip_prefix(strip(SubSeq(line, 1, k))),
                       values |-> IF endswith(line, <<"-">>) THEN -f.value ELSE f.value]

RECURSIVE financial_lines(_, _, _)
financial_lines(lines, i, items) ==
    IF i > Len(lines) THEN items
    ELSE LET r == financial_item(lines[i])
         IN  financial_lines(lines, i + 1,
                 IF r.store THEN DictSet(items, r.item_name, r.values) ELSE items)

_parse_financial_items(section_text) == financial_lines(split(section_text), 1, EmptyDict)

-----------------------------------------------------------------------------
(* The extractor: detect_statement_type and extract_financial_data *)

BranchMarker == <<"B","r","a","n","c","h"," ","o","f"," ","S","e","r","v","i","c","e">>

OperatingMarker == <<"A","c","t","u","a","l"," ","v","s"," ","B","u","d","g","e","t">>

BalanceSheetMarker ==
    <<"S","t","a","t","e","m","e","n","t"," ","o","f"," ","F","i","n","a","n","c","i","a","l",
      " ","C","o","n","d","i","t","i","o","n">>

Revenue == <<"R","e","v","e","n","u","e">>

DirectNAFI == <<"D","i","r","e","c","t"," ","N","A","F","I">>

NetRevenue == <<"N","e","t"," ","R","e","v","e","n","u","e">>

OperatingExpenses ==
    <<"O","p","e","r","a","t","i","n","g"," ","E","x","p","e","n","s","e","s">>

TotalOperatingExpenses ==
    <<"T","o","t","a","l"," ","O","p","e","r","a","t","i","n","g"," ",
      "E","x","p","e","n","s","e","s">>

NetOperatingIncome ==
    <<"N","e","t"," ","O","p","e","r","a","t","i","n","g"," ","I","n","c","o","m","e">>

InterestRevenue == <<"I","n","t","e","r","e","s","t"," ","R","e","v","e","n","u","e">>

NetIncomeLoss == <<"N","e","t"," ","I","n","c","o","m","e","/","(","L","o","s","s",")">>

NetIncome == <<"N","e","t"," ","I","n","c","o","m","e">>

ASSETS == <<"A","S","S","E","T","S">>

LIABILITIES == <<"L","I","A","B","I","L","I","T","I","E","S">>

EQUITY == <<"E","Q","U","I","T","Y">>

TOTAL_LIABILITIES == <<"T","O","T","A","L"," ","L","I","A","B","I","L","I","T","I","E","S">>

\* full_text += page.extract_text() + "\n", for every page
RECURSIVE full_text_from(_, _)
full_text_from(pages, i) ==
    IF i > Len(pages) THEN <<>>
    ELSE pages[i] \o <<NL>> \o full_text_from(pages, i + 1)

\* a slip: the operating marker is tested first
classify_operating_first(full_text) ==
    IF Contains(full_text, OperatingMarker) THEN "operating_results"
    ELSE IF Contains(full_text, BranchMarker) THEN "branch_breakdown"
    ELSE IF Contains(full_text, BalanceSheetMarker) THEN "balance_sheet"
    ELSE "unknown"

\* the if/elif chain of detect_statement_type
classify(full_text) ==
    IF Contains(full_text, BranchMarker) THEN "branch_breakdown"
    ELSE IF Contains(full_text, OperatingMarker) THEN "operating_results"
    ELSE IF Contains(full_text, BalanceSheetMarker) THEN "balance_sheet"
    ELSE "unknown"

detect_statement_type(pages) == classify(full_text_from(pages, 1))

\* operating_data / branch_data before the first page
EmptyStatement ==
    [revenue              |-> EmptyDict,
     direct_reimbursement |-> EmptyDict,
     net_revenue          |-> EmptyDict,
     operating_expenses   |-> EmptyDict,
     net_operating_income |-> EmptyDict,
     other_income         |-> EmptyDict,
     net_income           |-> EmptyDict,
     distributions        |-> EmptyDict]

\* financial_data of a balance sheet before the first page
EmptyBalanceSheet ==
    [assets |-> EmptyDict, liabilities |-> EmptyDict, equity |-> EmptyDict]

\* a slip: the result of the locator is stored without testing it
store_summary_always(items, key, summary) == DictSet(items, key, summary)

\* `if summary: data[category][key] = summary`
store_summary(items, key, summary) ==
    IF summary # EmptyDict THEN DictSet(items, key, summary) ELSE items

\* the body of `for page in pdf.pages` of extract_operating_results
operating_page(data, text) ==
    [data EXCEPT
        !.revenue = DictUpdate(@,
            _parse_budget_actual_items(_extract_section(text, Revenue, DirectNAFI))),
        !.direct_reimbursement = DictUpdate(@,
            _parse_budget_actual_items(_extract_section(text, DirectNAFI, NetRevenue))),
        !.operating_expenses = DictUpdate(@,
            _parse_budget_actual_items(
                _extract_section(text, OperatingExpenses, TotalOperatingExpenses))),
        !.net_revenue = store_summary(@, NetRevenue,
            _extract_summary_line(text, NetRevenue)),
        !.net_operating_income = store_summary(@, NetOperatingIncome,
            _extract_summary_line(text, NetOperatingIncome)),
        !.other_income = store_summary(@, InterestRevenue,
            _extract_summary_line(text, InterestRevenue)),
        !.net_income = store_summary(@, NetIncome,
            _extract_summary_line(text, NetIncomeLoss))]

\* the body of `for page in pdf.pages` of extract_branch_breakdown
branch_page(data, text) ==
    [data EXCEPT
        !.revenue = DictUpdate(@,
            _parse_branch_items(_extract_section(text, Revenue, DirectNAFI))),
        !.direct_reimbursement = DictUpdate(@,
            _parse_branch_items(_extract_section(text, DirectNAFI, NetRevenue))),
        !.operating_expenses = DictUpdate(@,
            _parse_branch_items(
                _extract_section(text, OperatingExpenses, TotalOperatingExpenses))),
        !.net_revenue = store_summary(@, NetRevenue,
            _extract_branch_summary_line(text, NetRevenue)),
        !.net_operating_income = store_summary(@, NetOperatingIncome,
            _extract_branch_summary_line(text, NetOperatingIncome)),
        !.other_income = store_summary(@, InterestRevenue,
            _extract_branch_summary_line(text, InterestRevenue)),
        !.net_income = store_summary(@, NetIncome,
            _extract_branch_summary_line(text, NetIncomeLoss))]

\* the body of `for page in pdf.pages` of _extract_balance_sheet_data
balance_sheet_page(data, text) ==
    [data EXCEPT
        !.assets = DictUpdate(@,
            _parse_financial_items(_extract_section(text, ASSETS, LIABILITIES))),
        !.liabilities = DictUpdate(@,
            _parse_financial_items(_extract_section(text, LIABILITIES, EQUITY))),
        !.equity = DictUpdate(@,
            _parse_financial_items(_extract_section(text, EQUITY, TOTAL_LIABILITIES)))]

\* _extract_generic_financial_data
_extract_generic_financial_data == [unknown_data |-> EmptyDict]

-----------------------------------------------------------------------------
(* SpecSlice: _extract_section applied to every short text over a three    *)
(* letter alphabet and every pair of markers                               *)

SliceAlphabet == {"A", "B", "x"}

SliceTexts == UNION {[1..n -> SliceAlphabet] : n \in 0..MaxTextLen}

SliceMarkers == {<<"A">>, <<"B">>, <<"A", "B">>}

ExtractorIdle ==
    /\ pdf_pages = <<>>
    /\ statement_type = None
    /\ page_no = 0
    /\ detected = None
    /\ financial_data = <<>>

InitSlice ==
    /\ ExtractorIdle
    /\ pc = "call"
    /\ call \in [fn : {"_extract_section"}, text : SliceTexts,
                 start_marker : SliceMarkers, end_marker : SliceMarkers]
    /\ ret = <<>>

ExtractSection ==
    /\ pc = "call"
    /\ call.fn = "_extract_section"
    /\ ret' = _extract_section(call.text, call.start_marker, call.end_marker)
    /\ pc' = "return"
    /\ UNCHANGED <<pdf_pages, statement_type, page_no, detected, financial_data, call>>

NextSlice == ExtractSection

SpecSlice == InitSlice /\ [][NextSlice]_vars

\* the 0-based indices at which sub occurs in text
Occurrences(text, sub) == {i \in 0..Len(text) : MatchesAt(text, sub, i)}

Least(S) == CHOOSE i \in S : \A j \in S : i <= j

\* C5: when the start marker occurs, and the end marker occurs at or after the
\* first occurrence of the start marker, _extract_section returns the text from
\* the first occurrence of the start marker up to the first occurrence of the end
\* marker that is not before it; occurrences of the end marker before the start
\* position play no part.
C5_SliceBetweenMarkers ==
    (pc = "return" /\ call.fn = "_extract_section") =>
        LET starts == Occurrences(call.text, call.start_marker)
            ends   == {e \in Occurrences(call.text, call.end_marker) :
                          starts # {} /\ e >= Least(starts)}
        IN  (starts # {} /\ ends # {}) =>
                ret = Slice(call.text, Least(starts), Least(ends))

\* the end marker occurs before the start marker and again after it, and the
\* slice runs over the first of them
C5_Witness ==
    /\ pc = "return"
    /\ call.fn = "_extract_section"
    /\ call.text = <<"B", "A", "x", "B">>
    /\ call.start_marker = <<"A">>
    /\ call.end_marker = <<"B">>
    /\ ret = <<"A", "x">>

\* C6: _extract_section returns the empty string when the start marker does not
\* occur (whatever the end marker does), and the text from the first occurrence
\* of the start marker to the end of the text when the end marker does not occur
\* at or after it; in both cases it returns (a string), it does not raise.
C6_MissingMarkers ==
    (pc = "return" /\ call.fn = "_extract_section") =>
        LET starts == Occurrences(call.text, call.start_marker)
            ends   == {e \in Occurrences(call.text, call.end_marker) :
                          starts # {} /\ e >= Least(starts)}
        IN  /\ starts = {} => ret = <<>>
            /\ (starts # {} /\ ends = {}) => ret = SliceFrom(call.text, Least(starts))

\* the end marker occurs only before the start marker: the slice runs to the end
C6_Witness ==
    /\ pc = "return"
    /\ call.fn = "_extract_section"
    /\ call.text = <<"B", "x", "A", "x">>
    /\ call.start_marker = <<"A">>
    /\ call.end_marker = <<"B">>
    /\ ret = <<"A", "x">>

-----------------------------------------------------------------------------
(* SpecAmount: the conversion applied to every short string the amount     *)
(* pattern matches, and to the two amounts the documentation gives         *)

TokenAlphabet == {"0", "7", ",", ".", "-"}

\* s as a whole has the shape [\d,]+\.?\d*-?
IsAmountToken(s) ==
    \E a \in 1..Len(s) :
        /\ \A i \in 1..a : s[i] \in AmountStart
        /\ LET r0 == SubSeq(s, a + 1, Len(s))
               r1 == IF r0 # <<>> /\ r0[1] = "." THEN Tail(r0) ELSE r0
               r2 == IF r1 # <<>> /\ r1[Len(r1)] = "-" THEN SubSeq(r1, 1, Len(r1) - 1) ELSE r1
           IN  \A i \in 1..Len(r2) : r2[i] \in Digits

\* the digits after the decimal point of s
FractionLen(s) ==
    LET p == index_of(s, 1, ".")
    IN  Cardinality({i \in (p + 1)..Len(s) : s[i] \in Digits})

DocumentedAmounts ==
    {<<"1", ",", "2", "3", "4", ".", "5", "6">>,
     <<"1", ",", "2", "3", "4", ".", "5", "6", "-">>}

AmountTokens ==
    {s \in UNION {[1..n -> TokenAlphabet] : n \in 1..MaxTokenLen} :
        IsAmountToken(s) /\ FractionLen(s) <= FracDigits}
    \cup DocumentedAmounts

InitAmount ==
    /\ ExtractorIdle
    /\ pc = "call"
    /\ call \in [fn : {"parse_amount"}, amount_str : AmountTokens]
    /\ ret = [raised |-> FALSE, value |-> 0]

ParseAmount ==
    /\ pc = "call"
    /\ call.fn = "parse_amount"
    /\ ret' = parse_amount(call.amount_str)
    /\ pc' = "return"
    /\ UNCHANGED <<pdf_pages, statement_type, page_no, detected, financial_data, call>>

NextAmount == ParseAmount

SpecAmount == InitAmount /\ [][NextAmount]_vars

HasDigit(s) == \E i \in 1..Len(s) : s[i] \in Digits

HasTrailingMinus(s) == s # <<>> /\ s[Len(s)] = "-"

\* the weight of the digit at index i of token s: a power of ten counted from
\* the decimal point p, skipping commas
DigitWeight(s, i, p) ==
    IF i < p
    THEN 10 ^ (FracDigits + Cardinality({j \in (i + 1)..(p - 1) : s[j] \in Digits}))
    ELSE 10 ^ (FracDigits - Cardinality({j \in (p + 1)..i : s[j] \in Digits}))

RECURSIVE WeightedSum(_, _, _)
WeightedSum(s, i, p) ==
    IF i > Len(s) THEN 0
    ELSE (IF s[i] \in Digits THEN DigitVal(s[i]) * DigitWeight(s, i, p) ELSE 0)
         + WeightedSum(s, i + 1, p)

\* the magnitude a token denotes, in units of 1/Scale
Magnitude(s) == WeightedSum(s, 1, index_of(s, 1, "."))

\* the signed amount a token denotes under the trailing-minus convention
AmountValue(s) == IF HasTrailingMinus(s) THEN -Magnitude(s) ELSE Magnitude(s)

\* C4: a token that holds a digit converts, commas ignored, to the magnitude of
\* its digits, negated when the token ends with a minus and non-negative
\* otherwise; "1,234.56" gives 1234.56 and "1,234.56-" gives -1234.56.
C4_AmountConversion ==
    (pc = "return" /\ call.fn = "parse_amount" /\ HasDigit(call.amount_str)) =>
        /\ ~ret.raised
        /\ HasTrailingMinus(call.amount_str) =>
               /\ ret.value = -Magnitude(call.amount_str)
               /\ ret.value <= 0
        /\ ~HasTrailingMinus(call.amount_str) =>
               /\ ret.value = Magnitude(call.amount_str)
               /\ ret.value >= 0
        /\ call.amount_str = <<"1", ",", "2", "3", "4", ".", "5", "6">> =>
               ret.value * 100 = 123456 * Scale
        /\ call.amount_str = <<"1", ",", "2", "3", "4", ".", "5", "6", "-">> =>
               ret.value * 100 = -123456 * Scale

\* "1,234.56-" has been converted to -1234.56
C4_Witness ==
    /\ pc = "return"
    /\ call.fn = "parse_amount"
    /\ call.amount_str = <<"1", ",", "2", "3", "4", ".", "5", "6", "-">>
    /\ ~ret.raised
    /\ ret.value * 100 = -123456 * Scale

-----------------------------------------------------------------------------
(* SpecLine: the line-item parsers and the summary-line locators applied   *)
(* to every section of up to MaxSectionLines lines of a vocabulary. A line *)
(* of the vocabulary is kept with its parts (indentation, label, amount    *)
(* tokens, width of the gaps) and handed to the code as rendered text.     *)

Tok1 == <<"1">>
Tok2 == <<"2">>
Tok3 == <<"3">>
Tok3m == <<"3", "-">>
Tok4 == <<"4">>
Tok5 == <<"5">>
Tok6 == <<"6">>
Tok7 == <<"7">>
Tok8 == <<"8">>
Tok9 == <<"9">>
Tok4m == <<"4", "-">>
Tok1c0 == <<"1", ",", "0">>
Tok2p5 == <<"2", ".", "5">>
TokComma == <<",">>

LineVocabulary ==
    { \* Slots 1 2 3- 4 5 6
      [indent |-> 0, gap |-> 1, label |-> <<"S","l","o","t","s">>,
       toks |-> <<Tok1, Tok2, Tok3m, Tok4, Tok5, Tok6>>],
      \* Slots 7 8 9 1 2 3
      [indent |-> 0, gap |-> 1, label |-> <<"S","l","o","t","s">>,
       toks |-> <<Tok7, Tok8, Tok9, Tok1, Tok2, Tok3>>],
      \* " Bingo 1,0 2.5 3 4": four columns, indented
      [indent |-> 1, gap |-> 1, label |-> <<"B","i","n","g","o">>,
       toks |-> <<Tok1c0, Tok2p5, Tok3, Tok4>>],
      \* Fees 1 2
      [indent |-> 0, gap |-> 1, label |-> <<"F","e","e","s">>,
       toks |-> <<Tok1, Tok2>>],
      \* Net Revenue , 1 2 3 4 5 6: the first token holds no digit
      [indent |-> 0, gap |-> 1, label |-> <<"N","e","t"," ","R","e","v","e","n","u","e">>,
       toks |-> <<TokComma, Tok1, Tok2, Tok3, Tok4, Tok5, Tok6>>],
      \* Net Revenue 9 8 7 6 5 4-
      [indent |-> 0, gap |-> 1, label |-> <<"N","e","t"," ","R","e","v","e","n","u","e">>,
       toks |-> <<Tok9, Tok8, Tok7, Tok6, Tok5, Tok4m>>],
      \* Interest Revenue 5
      [indent |-> 0, gap |-> 1,
       label |-> <<"I","n","t","e","r","e","s","t"," ","R","e","v","e","n","u","e">>,
       toks |-> <<Tok5>>],
      \* a separator line
      [indent |-> 0, gap |-> 1, label |-> <<"-","-","-","-","-">>, toks |-> <<>>],
      \* =Sum 1 2 3 4 5 6: begins like a separator
      [indent |-> 0, gap |-> 1, label |-> <<"=","S","u","m">>,
       toks |-> <<Tok1, Tok2, Tok3, Tok4, Tok5, Tok6>>],
      \* an empty line
      [indent |-> 0, gap |-> 1, label |-> <<>>, toks |-> <<>>],
      \* E911 Fees 1 2 3 4 5 6: the label holds digits
      [indent |-> 0, gap |-> 1, label |-> <<"E","9","1","1"," ","F","e","e","s">>,
       toks |-> <<Tok1, Tok2, Tok3, Tok4, Tok5, Tok6>>],
      \* Gaming Machine Revenue  125,000.00  100,000.00  25,000.00-  980,000  900,000  80,000-
      [indent |-> 0, gap |-> 2,
       label |-> <<"G","a","m","i","n","g"," ","M","a","c","h","i","n","e"," ",
                   "R","e","v","e","n","u","e">>,
       toks |-> << <<"1","2","5",",","0","0","0",".","0","0">>,
                   <<"1","0","0",",","0","0","0",".","0","0">>,
                   <<"2","5",",","0","0","0",".","0","0","-">>,
                   <<"9","8","0",",","0","0","0">>,
                   <<"9","0","0",",","0","0","0">>,
                   <<"8","0",",","0","0","0","-">> >>] }

Spaces(n) == [i \in 1..n |-> " "]

RECURSIVE RenderToks(_, _, _)
RenderToks(toks, i, gap) ==
    IF i > Len(toks) THEN <<>>
    ELSE Spaces(gap) \o toks[i] \o RenderToks(toks, i + 1, gap)

\* the text of a vocabulary line
Render(l) == Spaces(l.indent) \o l.label \o RenderToks(l.toks, 1, l.gap)

\* the lines joined by newlines
RECURSIVE JoinLines(_, _)
JoinLines(ls, i) ==
    IF i > Len(ls) THEN <<>>
    ELSE IF i = Len(ls) THEN Render(ls[i])
    ELSE Render(ls[i]) \o <<NL>> \o JoinLines(ls, i + 1)

SectionText(ls) == JoinLines(ls, 1)

Sections == UNION {[1..n -> LineVocabulary] : n \in 0..MaxSectionLines}

LineIdentifiers ==
    {<<"N","e","t"," ","R","e","v","e","n","u","e">>,
     <<"I","n","t","e","r","e","s","t"," ","R","e","v","e","n","u","e">>}

LineCalls ==
    {[fn |-> f, lines |-> ls, section_text |-> SectionText(ls), line_identifier |-> id] :
        f \in {"_parse_budget_actual_items", "_parse_branch_items"},
        ls \in Sections, id \in {<<>>}}
    \cup
    {[fn |-> f, lines |-> ls, section_text |-> SectionText(ls), line_identifier |-> id] :
        f \in {"_extract_summary_line", "_extract_branch_summary_line"},
        ls \in Sections, id \in LineIdentifiers}

InitLine ==
    /\ ExtractorIdle
    /\ pc = "call"
    /\ call \in LineCalls
    /\ ret = <<>>

Return(value) ==
    /\ ret' = value
    /\ pc' = "return"
    /\ UNCHANGED <<pdf_pages, statement_type, page_no, detected, financial_data, call>>

ParseBudgetActualItems ==
    /\ pc = "call"
    /\ call.fn = "_parse_budget_actual_items"
    /\ Return(_parse_budget_actual_items(call.section_text))

ParseBranchItems ==
    /\ pc = "call"
    /\ call.fn = "_parse_branch_items"
    /\ Return(_parse_branch_items(call.section_text))

ExtractSummaryLine ==
    /\ pc = "call"
    /\ call.fn = "_extract_summary_line"
    /\ Return(_extract_summary_line(call.section_text, call.line_identifier))

ExtractBranchSummaryLine ==
    /\ pc = "call"
    /\ call.fn = "_extract_branch_summary_line"
    /\ Return(_extract_branch_summary_line(call.section_text, call.line_identifier))

NextLine ==
    \/ ParseBudgetActualItems
    \/ ParseBranchItems
    \/ ExtractSummaryLine
    \/ ExtractBranchSummaryLine

SpecLine == InitLine /\ [][NextLine]_vars

ItemParsers == {"_parse_budget_actual_items", "_parse_branch_items"}

SummaryLocators == {"_extract_summary_line", "_extract_branch_summary_line"}

\* the number of columns the called helper requires
Arity(fn) ==
    IF fn \in {"_parse_budget_actual_items", "_extract_summary_line"}
    THEN OperatingArity ELSE BranchArity

\* the helper called, applied to the text of the lines ls
Reparse(fn, ls) ==
    IF fn = "_parse_budget_actual_items"
    THEN _parse_budget_actual_items(SectionText(ls))
    ELSE _parse_branch_items(SectionText(ls))

RemoveAt(ls, i) == SubSeq(ls, 1, i - 1) \o SubSeq(ls, i + 1, Len(ls))

\* a leading label: some text before the first amount that holds no digit and
\* no comma and does not begin like a separator line
HasLabel(l) ==
    /\ l.label # <<>>
    /\ l.label[1] \notin {"-", "="}
    /\ \A i \in 1..Len(l.label) : l.label[i] \notin AmountStart

\* the line has a label and at least n amount tokens, the first n well formed
IsItemLine(l, n) ==
    /\ HasLabel(l)
    /\ Len(l.toks) >= n
    /\ \A k \in 1..n : IsAmountToken(l.toks[k]) /\ HasDigit(l.toks[k])

\* the record of the first columns of the tokens, in the field order of the helper
ExpectedRecord(fn, toks) ==
    IF Arity(fn) = OperatingArity
    THEN [march_actual   |-> AmountValue(toks[1]),
          march_budget   |-> AmountValue(toks[2]),
          march_variance |-> AmountValue(toks[3]),
          ytd_actual     |-> AmountValue(toks[4]),
          ytd_budget     |-> AmountValue(toks[5]),
          ytd_variance   |-> AmountValue(toks[6])]
    ELSE [armp_total |-> AmountValue(toks[1]),
          army       |-> AmountValue(toks[2]),
          navy       |-> AmountValue(toks[3]),
          usmc       |-> AmountValue(toks[4])]

\* line i is the last item line of its label in the section
LastOfLabel(ls, i, n) ==
    /\ IsItemLine(ls[i], n)
    /\ \A j \in (i + 1)..Len(ls) : ~(IsItemLine(ls[j], n) /\ ls[j].label = ls[i].label)

GamingLabel ==
    <<"G","a","m","i","n","g"," ","M","a","c","h","i","n","e"," ","R","e","v","e","n","u","e">>

SlotsLabel == <<"S","l","o","t","s">>

\* C2: a line with a leading label and at least arity well-formed amount tokens
\* (6 for the operating parser, 4 for the branch parser) yields exactly one
\* record, under its label, whose fields in field order are the values of the
\* line's first arity tokens in column order (the last such line of a label is
\* the one recorded); the documented line gives 125000, 100000, -25000, 980000,
\* 900000, -80000.
C2_RecordPerLine ==
    (pc = "return" /\ call.fn \in ItemParsers) =>
        /\ \A i \in DOMAIN call.lines :
              LastOfLabel(call.lines, i, Arity(call.fn)) =>
                  /\ Cardinality({p \in DOMAIN ret : ret[p][1] = call.lines[i].label}) = 1
                  /\ DictGet(ret, call.lines[i].label)
                         = ExpectedRecord(call.fn, call.lines[i].toks)
        /\ (call.fn = "_parse_budget_actual_items" /\ DictHas(ret, GamingLabel)) =>
              DictGet(ret, GamingLabel) =
                  [march_actual   |-> 125000 * Scale,
                   march_budget   |-> 100000 * Scale,
                   march_variance |-> -25000 * Scale,
                   ytd_actual     |-> 980000 * Scale,
                   ytd_budget     |-> 900000 * Scale,
                   ytd_variance   |-> -80000 * Scale]

\* the documented line, alone in its section, has been parsed with six columns
C2_Witness ==
    /\ pc = "return"
    /\ call.fn = "_parse_budget_actual_items"
    /\ Len(call.lines) = 1
    /\ call.lines[1].label = GamingLabel
    /\ Len(ret) = 1
    /\ ret[1][1] = GamingLabel
    /\ ret[1][2].march_variance = -25000 * Scale
    /\ ret[1][2].ytd_actual = 980000 * Scale

\* the line holds fewer than n amount tokens
IsShortLine(l, n) ==
    /\ \A i \in 1..Len(l.label) : l.label[i] \notin AmountStart
    /\ Len(l.toks) < n

\* C3: a line with fewer amount tokens than the arity leaves no trace: the
\* parser returns what it returns for the section without that line, and the
\* line's label is a key only if another line of the section supplies it.
C3_ShortLineOmitted ==
    (pc = "return" /\ call.fn \in ItemParsers) =>
        \A i \in DOMAIN call.lines :
            IsShortLine(call.lines[i], Arity(call.fn)) =>
                /\ ret = Reparse(call.fn, RemoveAt(call.lines, i))
                /\ DictHas(ret, call.lines[i].label) =>
                       \E j \in DOMAIN call.lines :
                           /\ j # i
                           /\ call.lines[j].label = call.lines[i].label
                           /\ IsItemLine(call.lines[j], Arity(call.fn))

\* a four-column line handed to the six-column parser, before a full line: only
\* the full line is recorded
C3_Witness ==
    /\ pc = "return"
    /\ call.fn = "_parse_budget_actual_items"
    /\ Len(call.lines) = 2
    /\ call.lines[1].label = <<"B","i","n","g","o">>
    /\ Len(call.lines[1].toks) = 4
    /\ call.lines[2].label = SlotsLabel
    /\ DictKeys(ret) = <<SlotsLabel>>

\* the line has a label and n amount tokens, one of the first n without a digit
FailsConversion(l, n) ==
    /\ HasLabel(l)
    /\ Len(l.toks) >= n
    /\ \E k \in 1..n : ~HasDigit(l.toks[k])

\* C10: a line whose conversion fails is skipped and the section goes on: the
\* parser returns what it returns for the section without that line, and every
\* item line of the section is still recorded with its values.
C10_FailedLineSkipped ==
    (pc = "return" /\ call.fn \in ItemParsers) =>
        \A i \in DOMAIN call.lines :
            FailsConversion(call.lines[i], Arity(call.fn)) =>
                /\ ret = Reparse(call.fn, RemoveAt(call.lines, i))
                /\ \A j \in DOMAIN call.lines :
                       LastOfLabel(call.lines, j, Arity(call.fn)) =>
                           /\ DictHas(ret, call.lines[j].label)
                           /\ DictGet(ret, call.lines[j].label)
                                  = ExpectedRecord(call.fn, call.lines[j].toks)

\* a line whose first token is a lone comma, then a full line: the full line is
\* recorded
C10_Witness ==
    /\ pc = "return"
    /\ call.fn = "_parse_branch_items"
    /\ Len(call.lines) = 2
    /\ FailsConversion(call.lines[1], BranchArity)
    /\ call.lines[1].toks[1] = TokComma
    /\ call.lines[2].label = SlotsLabel
    /\ DictKeys(ret) = <<SlotsLabel>>
    /\ DictGet(ret, SlotsLabel) = ExpectedRecord(call.fn, call.lines[2].toks)

\* the lines that hold the identifier and at least n amount tokens
Candidates(ls, id, n) ==
    {i \in DOMAIN ls : Occurrences(Render(ls[i]), id) # {} /\ Len(ls[i].toks) >= n}

\* C8: the locator returns the record of the first line that holds the
\* identifier and at least arity amount tokens; it returns the empty result when
\* there is no such line or when the conversion of that line fails.
C8_FirstCandidateOrNotFound ==
    (pc = "return" /\ call.fn \in SummaryLocators) =>
        LET cands == Candidates(call.lines, call.line_identifier, Arity(call.fn))
        IN  IF cands = {} THEN ret = EmptyDict
            ELSE LET toks == call.lines[Least(cands)].toks
                 IN  IF \E k \in 1..Arity(call.fn) : ~HasDigit(toks[k])
                     THEN ret = EmptyDict
                     ELSE ret = ExpectedRecord(call.fn, toks)

\* the text of the line before its first run of digits and commas, trimmed
TextBeforeFirstToken(line) ==
    LET first == Lowest({k \in 1..Len(line) : line[k] \in AmountStart} \cup {Len(line) + 1})
    IN  strip(SubSeq(line, 1, first - 1))

\* C18: every item name the line-item parser records is the text of a line of
\* the section that precedes the line's first numeric token (its first run of
\* digits and commas), trimmed of surrounding whitespace.
C18_NameBeforeFirstToken ==
    (pc = "return" /\ call.fn \in ItemParsers) =>
        \A p \in DOMAIN ret :
            \E i \in DOMAIN call.lines :
                ret[p][1] = TextBeforeFirstToken(strip(Render(call.lines[i])))

-----------------------------------------------------------------------------
(* SpecFinancial: the balance-sheet parser applied to every section of up  *)
(* to MaxSectionLines lines of a vocabulary of balance-sheet lines         *)

DocumentedLabel == <<"L","a","b","e","l">>
BankName == <<"B","a","n","k">>

FinancialVocabulary ==
    { \* Label 1,234.56-
      [indent |-> 0, gap |-> 1, label |-> DocumentedLabel,
       toks |-> << <<"1",",","2","3","4",".","5","6","-">> >>],
      \* Cash--Bank 1,0
      [indent |-> 0, gap |-> 1, label |-> <<"C","a","s","h","-","-","B","a","n","k">>,
       toks |-> <<Tok1c0>>],
      \* Bank 2.5
      [indent |-> 0, gap |-> 1, label |-> BankName, toks |-> <<Tok2p5>>],
      \* Less Dep 4-
      [indent |-> 0, gap |-> 1, label |-> <<"L","e","s","s"," ","D","e","p">>,
       toks |-> <<Tok4m>>],
      \* "  Loans  7": indented, two spaces before the amount
      [indent |-> 2, gap |-> 2, label |-> <<"L","o","a","n","s">>, toks |-> <<Tok7>>],
      \* Cash 1 2-: two amounts
      [indent |-> 0, gap |-> 1, label |-> <<"C","a","s","h">>, toks |-> <<Tok1, <<"2","-">> >>],
      \* Nil 0-
      [indent |-> 0, gap |-> 1, label |-> <<"N","i","l">>, toks |-> << <<"0","-">> >>],
      \* Cash--Less x 3: two prefixes in a row
      [indent |-> 0, gap |-> 1, label |-> <<"C","a","s","h","-","-","L","e","s","s"," ","x">>,
       toks |-> <<Tok3>>],
      \* Lesser 5: begins with Less, without whitespace after it
      [indent |-> 0, gap |-> 1, label |-> <<"L","e","s","s","e","r">>, toks |-> <<Tok5>>],
      \* ASSETS: no amount
      [indent |-> 0, gap |-> 1, label |-> <<"A","S","S","E","T","S">>, toks |-> <<>>],
      \* Fund , : an amount without a digit
      [indent |-> 0, gap |-> 1, label |-> <<"F","u","n","d">>, toks |-> <<TokComma>>],
      \* Notes 3 x: the amount is not at the end of the line
      [indent |-> 0, gap |-> 1, label |-> <<"N","o","t","e","s"," ","3"," ","x">>, toks |-> <<>>],
      \* Due (5): the amount is in parentheses
      [indent |-> 0, gap |-> 1, label |-> <<"D","u","e"," ","(","5",")">>, toks |-> <<>>],
      \* Tax 1.2.3: not one amount
      [indent |-> 0, gap |-> 1, label |-> <<"T","a","x">>, toks |-> << <<"1",".","2",".","3">> >>],
      \* 5: an amount without a label
      [indent |-> 0, gap |-> 0, label |-> <<>>, toks |-> <<Tok5>>],
      \* an empty line
      [indent |-> 0, gap |-> 1, label |-> <<>>, toks |-> <<>>] }

FinancialSections == UNION {[1..n -> FinancialVocabulary] : n \in 0..MaxSectionLines}

InitFinancial ==
    /\ ExtractorIdle
    /\ pc = "call"
    /\ call \in {[fn |-> "_parse_financial_items", lines |-> ls, section_text |-> SectionText(ls)] :
                    ls \in FinancialSections}
    /\ ret = <<>>

ParseFinancialItems ==
    /\ pc = "call"
    /\ call.fn = "_parse_financial_items"
    /\ Return(_parse_financial_items(call.section_text))

NextFinancial == ParseFinancialItems

SpecFinancial == InitFinancial /\ [][NextFinancial]_vars

\* the index of the last whitespace character of s, 0 when there is none
LastWhitespace(s) == -Lowest({-k : k \in {j \in 1..Len(s) : s[j] \in Whitespace} \cup {0}})

\* the text after the last whitespace of the trimmed line
EndToken(l) ==
    LET s == strip(Render(l))
    IN  SubSeq(s, LastWhitespace(s) + 1, Len(s))

\* the text before the last run of whitespace of the trimmed line
LabelPart(l) ==
    LET s == strip(Render(l))
    IN  strip(SubSeq(s, 1, LastWhitespace(s)))

\* label, whitespace, one numeric amount at the end, optional trailing minus
HasFinancialForm(l) ==
    /\ LabelPart(l) # <<>>
    /\ IsAmountToken(EndToken(l))
    /\ HasDigit(EndToken(l))

\* line i is the last line of the form recorded under its name
LastOfName(ls, i) ==
    /\ HasFinancialForm(ls[i])
    /\ \A j \in (i + 1)..Len(ls) :
           ~(HasFinancialForm(ls[j])
               /\ strip_prefix(LabelPart(ls[j])) = strip_prefix(LabelPart(ls[i])))

\* C19: the balance-sheet parser records a line exactly when the line is a
\* label, whitespace and one numeric amount at its end with an optional trailing
\* minus: such a line is stored (the last one of a name) with the magnitude of
\* its amount, commas removed, negated when the line ends with the minus and
\* non-negative otherwise; every other line leaves no trace and every stored
\* item comes from such a line; "Label 1,234.56-" stores -1234.56.
C19_BalanceSheetLine ==
    (pc = "return" /\ call.fn = "_parse_financial_items") =>
        /\ \A i \in DOMAIN call.lines :
              LastOfName(call.lines, i) =>
                  LET name == strip_prefix(LabelPart(call.lines[i]))
                      tok  == EndToken(call.lines[i])
                  IN  /\ Cardinality({p \in DOMAIN ret : ret[p][1] = name}) = 1
                      /\ DictGet(ret, name) =
                             IF HasTrailingMinus(tok) THEN -Magnitude(tok) ELSE Magnitude(tok)
                      /\ ~HasTrailingMinus(tok) => DictGet(ret, name) >= 0
                      /\ (HasTrailingMinus(tok) /\ Magnitude(tok) # 0) => DictGet(ret, name) < 0
        /\ \A i \in DOMAIN call.lines :
              ~HasFinancialForm(call.lines[i]) =>
                  ret = _parse_financial_items(SectionText(RemoveAt(call.lines, i)))
        /\ \A p \in DOMAIN ret :
              \E i \in DOMAIN call.lines :
                  /\ HasFinancialForm(call.lines[i])
                  /\ ret[p][1] = strip_prefix(LabelPart(call.lines[i]))
        /\ DictHas(ret, DocumentedLabel) => DictGet(ret, DocumentedLabel) * 100 = -123456 * Scale

\* a line without amount, then the documented line: only the second is stored,
\* with the negated amount
C19_Witness ==
    /\ pc = "return"
    /\ call.fn = "_parse_financial_items"
    /\ Len(call.lines) = 2
    /\ ~HasFinancialForm(call.lines[1])
    /\ call.lines[2].label = DocumentedLabel
    /\ DictKeys(ret) = <<DocumentedLabel>>
    /\ DictGet(ret, DocumentedLabel) < 0

CashPrefix == <<"C","a","s","h","-","-">>

LessWord == <<"L","e","s","s">>

\* the lengths of a recognized prefix at the start of the label: "Cash--", or
\* "Less" with all the whitespace that follows it
PrefixLengths(label) ==
    {k \in 1..Len(label) :
        \/ SubSeq(label, 1, k) = CashPrefix
        \/ /\ k >= 5
           /\ SubSeq(label, 1, 4) = LessWord
           /\ \A i \in 5..k : label[i] \in Whitespace
           /\ k < Len(label) => label[k + 1] \notin Whitespace}

\* the label without its recognized prefix, if it has one
WithoutPrefix(label) ==
    IF PrefixLengths(label) = {} THEN label
    ELSE SubSeq(label, Lowest(PrefixLengths(label)) + 1, Len(label))

BeginsWithPrefix(name) == PrefixLengths(name) # {}

\* C23 as stated: a recognized prefix is stripped before a balance-sheet item is
\* stored, so no stored item name begins with "Cash--" or with "Less" and
\* whitespace, and a label without such a prefix is stored unchanged.
C23_NoStoredPrefix ==
    (pc = "return" /\ call.fn = "_parse_financial_items") =>
        /\ \A p \in DOMAIN ret : ~BeginsWithPrefix(ret[p][1])
        /\ \A i \in DOMAIN call.lines :
               (HasFinancialForm(call.lines[i]) /\ ~BeginsWithPrefix(LabelPart(call.lines[i])))
                   => DictHas(ret, LabelPart(call.lines[i]))

\* C23 amended: one recognized prefix at the start of the label is removed, once:
\* every line of the form is stored under its label without that prefix (the
\* label itself when it has none), and every stored name is such a label; what
\* follows the removed prefix is kept, also when it is a prefix again.
C23_PrefixStrippedOnce ==
    (pc = "return" /\ call.fn = "_parse_financial_items") =>
        /\ \A i \in DOMAIN call.lines :
               HasFinancialForm(call.lines[i]) =>
                   DictHas(ret, WithoutPrefix(LabelPart(call.lines[i])))
        /\ \A p \in DOMAIN ret :
               \E i \in DOMAIN call.lines :
                   /\ HasFinancialForm(call.lines[i])
                   /\ ret[p][1] = WithoutPrefix(LabelPart(call.lines[i]))

\* "Less Dep 4-" and "Cash--Less x 3": stored as "Dep" and as "Less x"
C23_Witness ==
    /\ pc = "return"
    /\ call.fn = "_parse_financial_items"
    /\ Len(call.lines) = 2
    /\ call.lines[1].label = <<"L","e","s","s"," ","D","e","p">>
    /\ call.lines[2].label = <<"C","a","s","h","-","-","L","e","s","s"," ","x">>
    /\ DictKeys(ret) = << <<"D","e","p">>, <<"L","e","s","s"," ","x">> >>

-----------------------------------------------------------------------------
(* Derived metrics: calculate_variance_analysis, calculate_branch_performance *)

Abs(x) == IF x < 0 THEN -x ELSE x

RECURSIVE gcd(_, _)
gcd(a, b) == IF b = 0 THEN a ELSE gcd(b, a % b)

\* the number 0 of `... else 0`
Zero == [num |-> 0, den |-> 1]

\* a / b * 100 for b # 0: the fraction in lowest terms with a positive denominator
\* (the rounding of the float operations is not part of the model)
percent(a, b) ==
    LET n == a * 100
        g == gcd(Abs(n), Abs(b))
        s == IF b < 0 THEN -1 ELSE 1
    IN  [num |-> (s * n) \div g, den |-> (s * b) \div g]

\* a slip: a budget of 0 counts as a variance of 100%
variance_pct_full(variance, budget) ==
    IF budget # 0 THEN percent(variance, budget) ELSE [num |-> 100, den |-> 1]

\* (variance / budget * 100) if budget != 0 else 0
variance_pct(variance, budget) ==
    IF budget # 0 THEN percent(variance, budget) ELSE Zero

\* (value / total * 100) if total != 0 else 0
share_pct(value, total) ==
    IF total # 0 THEN percent(value, total) ELSE Zero

\* (net_income.get(k, 0) / total_revenue.get(k, 1) * 100)
\*     if total_revenue.get(k, 0) != 0 else 0
margin_pct(income, revenue) ==
    IF revenue # 0 THEN percent(income, revenue) ELSE Zero

\* values.get(k, default)
RecGet(values, k, default) == IF k \in DOMAIN values THEN values[k] ELSE default

\* d.get(k, {})
DictGetOrEmpty(d, k) == IF DictHas(d, k) THEN DictGet(d, k) ELSE EmptyDict

\* the keys of a result dictionary, in insertion order
StatementCategories ==
    <<"revenue", "direct_reimbursement", "net_revenue", "operating_expenses",
      "net_operating_income", "other_income", "net_income", "distributions">>

BalanceSheetCategories == <<"assets", "liabilities", "equity">>

Categories(data) ==
    IF "revenue" \in DOMAIN data THEN StatementCategories
    ELSE IF "assets" \in DOMAIN data THEN BalanceSheetCategories
    ELSE <<"unknown_data">>

\* isinstance(values, dict) for the values of the items of data: the items of a
\* statement are records, those of a balance sheet are amounts
values_are_dicts(data) == "revenue" \in DOMAIN data

\* the entries of one category of the analysis
variance_items(items) ==
    LET with_budget == SelectSeq(items, LAMBDA kv : "march_budget" \in DOMAIN kv[2])
    IN  [i \in DOMAIN with_budget |->
            <<with_budget[i][1],
              [march_variance_pct |-> variance_pct(with_budget[i][2].march_variance,
                                                   with_budget[i][2].march_budget),
               ytd_variance_pct   |-> variance_pct(with_budget[i][2].ytd_variance,
                                                   with_budget[i][2].ytd_budget)]>>]

\* a slip: the analysis of the previous call is kept and returned again
calculate_variance_analysis_cached(operating_data) ==
    IF call.fn = "calculate_variance_analysis" THEN ret
    ELSE [category \in DOMAIN operating_data |->
             IF values_are_dicts(operating_data)
             THEN variance_items(operating_data[category]) ELSE EmptyDict]

calculate_variance_analysis(operating_data) ==
    [category \in DOMAIN operating_data |->
        IF values_are_dicts(operating_data)
        THEN variance_items(operating_data[category]) ELSE EmptyDict]

Total == <<"T","o","t","a","l">>

GamingMachineRevenue ==
    <<"G","a","m","i","n","g"," ","M","a","c","h","i","n","e"," ","R","e","v","e","n","u","e">>

OperatingMargin == <<"O","p","e","r","a","t","i","n","g"," ","M","a","r","g","i","n">>

\* the loop over the revenue items, from item i on: the shares of every item whose
\* armp_total is not 0
RECURSIVE revenue_shares(_, _, _)
revenue_shares(revenue_items, i, performance) ==
    IF i > Len(revenue_items) THEN performance
    ELSE LET item_name == revenue_items[i][1]
             values    == revenue_items[i][2]
             total     == RecGet(values, "armp_total", 0)
         IN  revenue_shares(revenue_items, i + 1,
                 IF total # 0
                 THEN DictSet(performance, item_name,
                          [army_share_pct |-> share_pct(values.army, total),
                           navy_share_pct |-> share_pct(values.navy, total),
                           usmc_share_pct |-> share_pct(values.usmc, total)])
                 ELSE performance)

\* a slip: the name has to be equal to "Gaming Machine Revenue"
is_total_revenue_equal(item_name) ==
    Contains(item_name, Total) \/ item_name = GamingMachineRevenue

\* 'Total' in item_name or 'Gaming Machine Revenue' in item_name
is_total_revenue(item_name) ==
    Contains(item_name, Total) \/ Contains(item_name, GamingMachineRevenue)

\* the index of the item the loop `for ... : if ...: total_revenue = values; break`
\* stops at, or 0 when total_revenue stays None
total_revenue_index(revenue_items) ==
    LET hits == {i \in DOMAIN revenue_items : is_total_revenue(revenue_items[i][1])}
    IN  IF hits = {} THEN 0 ELSE Lowest(hits)

operating_margin(net_income, total_revenue) ==
    [army_margin_pct |-> margin_pct(RecGet(net_income, "army", 0),
                                    RecGet(total_revenue, "army", 0)),
     navy_margin_pct |-> margin_pct(RecGet(net_income, "navy", 0),
                                    RecGet(total_revenue, "navy", 0)),
     usmc_margin_pct |-> margin_pct(RecGet(net_income, "usmc", 0),
                                    RecGet(total_revenue, "usmc", 0)),
     armp_margin_pct |-> margin_pct(RecGet(net_income, "armp_total", 0),
                                    RecGet(total_revenue, "armp_total", 0))]

calculate_branch_performance(branch_data) ==
    LET shares ==
            IF "revenue" \in DOMAIN branch_data /\ values_are_dicts(branch_data)
            THEN revenue_shares(branch_data.revenue, 1, EmptyDict)
            ELSE EmptyDict
    IN  IF "net_operating_income" \in DOMAIN branch_data /\ "revenue" \in DOMAIN branch_data
        THEN LET net_income == DictGetOrEmpty(branch_data.net_operating_income,
                                              NetOperatingIncome)
                 t          == total_revenue_index(branch_data.revenue)
             IN  IF net_income # EmptyDict /\ t # 0
                 THEN DictSet(shares, OperatingMargin,
                          operating_margin(net_income, branch_data.revenue[t][2]))
                 ELSE shares
        ELSE shares

-----------------------------------------------------------------------------
(* export_to_dataframes *)

\* the row of an item of an operating statement
operating_row(category, item_name, values) ==
    [category           |-> category,
     line_item          |-> item_name,
     march_actual       |-> RecGet(values, "march_actual", 0),
     march_budget       |-> RecGet(values, "march_budget", 0),
     march_variance     |-> RecGet(values, "march_variance", 0),
     ytd_actual         |-> RecGet(values, "ytd_actual", 0),
     ytd_budget         |-> RecGet(values, "ytd_budget", 0),
     ytd_variance       |-> RecGet(values, "ytd_variance", 0),
     march_variance_pct |-> variance_pct(RecGet(values, "march_variance", 0),
                                         RecGet(values, "march_budget", 0)),
     ytd_variance_pct   |-> variance_pct(RecGet(values, "ytd_variance", 0),
                                         RecGet(values, "ytd_budget", 0))]

\* the row of an item of a branch breakdown
branch_row(category, item_name, values) ==
    [category   |-> category,
     line_item  |-> item_name,
     armp_total |-> RecGet(values, "armp_total", 0),
     army       |-> RecGet(values, "army", 0),
     navy       |-> RecGet(values, "navy", 0),
     usmc       |-> RecGet(values, "usmc", 0),
     army_pct   |-> share_pct(RecGet(values, "army", 0), RecGet(values, "armp_total", 0)),
     navy_pct   |-> share_pct(RecGet(values, "navy", 0), RecGet(values, "armp_total", 0)),
     usmc_pct   |-> share_pct(RecGet(values, "usmc", 0), RecGet(values, "armp_total", 0))]

\* the row of an item of a balance sheet
balance_sheet_row(category, item, amount) ==
    [category |-> category, item |-> item, amount |-> amount]

\* the row appended for an item by the branch of export_to_dataframes chosen for
\* the statement type
export_row(type, category, kv) ==
    IF type = "operating_results" THEN operating_row(category, kv[1], kv[2])
    ELSE IF type = "branch_breakdown" THEN branch_row(category, kv[1], kv[2])
    ELSE balance_sheet_row(category, kv[1], kv[2])

\* the name the DataFrame is stored under
dataframe_name(type) ==
    IF type \in {"operating_results", "branch_breakdown"} THEN type ELSE "balance_sheet"

\* a slip: only the first item of a category gets a row
category_rows_first(type, category, items) ==
    IF items = EmptyDict THEN <<>> ELSE <<export_row(type, category, items[1])>>

\* for item_name, values in items.items(): all_items.append(row)
category_rows(type, category, items) ==
    [i \in DOMAIN items |-> export_row(type, category, items[i])]

\* for category, items in financial_data.items(), from category i on
RECURSIVE all_items_from(_, _, _)
all_items_from(type, data, i) ==
    IF i > Len(Categories(data)) THEN <<>>
    ELSE category_rows(type, Categories(data)[i], data[Categories(data)[i]])
             \o all_items_from(type, data, i + 1)

\* the dictionary of DataFrames: one DataFrame, given by its name and its rows
export_to_dataframes(type, data) ==
    [name |-> dataframe_name(type), rows |-> all_items_from(type, data, 1)]

-----------------------------------------------------------------------------
(* The reports: a report is the sequence of its lines; a line is the format   *)
(* string it is printed with, the item or category name put into it, and the  *)
(* numbers put into it, in order. What format() prints for a number under a   *)
(* format spec is a function of the two, and is kept as the number.           *)

Line(template, item, args) == [template |-> template, item |-> item, args |-> args]

Text(template) == Line(template, <<>>, <<>>)

BlankLine == Text("")

\* an amount and a percentage as arguments of a format string
Amount(a) == [amount |-> a]

Pct(p) == [pct |-> p]

\* the section "KEY PERFORMANCE INDICATORS"
operating_kpi_lines(operating_data) ==
    IF "net_revenue" \in DOMAIN operating_data
           /\ DictHas(operating_data.net_revenue, NetRevenue)
    THEN LET net_rev == DictGet(operating_data.net_revenue, NetRevenue)
         IN  << Text("KEY PERFORMANCE INDICATORS:"),
                Line("  YTD Net Revenue: ${:,.2f}", <<>>,
                     <<Amount(RecGet(net_rev, "ytd_actual", 0))>>),
                Line("  YTD Budget: ${:,.2f}", <<>>,
                     <<Amount(RecGet(net_rev, "ytd_budget", 0))>>),
                Line("  YTD Variance: ${:,.2f}", <<>>,
                     <<Amount(RecGet(net_rev, "ytd_variance", 0))>>),
                BlankLine >>
    ELSE <<>>

\* the lines of the revenue items from item i on
RECURSIVE operating_revenue_lines(_, _)
operating_revenue_lines(items, i) ==
    IF i > Len(items) THEN <<>>
    ELSE LET values     == items[i][2]
             ytd_actual == RecGet(values, "ytd_actual", 0)
             ytd_budget == RecGet(values, "ytd_budget", 0)
         IN  << Line("  {item}:", items[i][1], <<>>),
                Line("    YTD Actual: ${:,.2f}", <<>>, <<Amount(ytd_actual)>>),
                Line("    YTD Budget: ${:,.2f}", <<>>, <<Amount(ytd_budget)>>),
                Line("    Variance: {:+.1f}%", <<>>,
                     <<Pct(variance_pct(RecGet(values, "ytd_variance", 0), ytd_budget))>>),
                BlankLine >>
             \o operating_revenue_lines(items, i + 1)

\* a slip: the key is the percentage itself, not its absolute value
abs_less_signed(a, b) == a.num * b.den < b.num * a.den

\* abs(x[1]) of a is less than that of b
abs_less(a, b) == Abs(a.num) * b.den < Abs(b.num) * a.den

\* list.sort(key=lambda x: abs(x[1]), reverse=True) by insertion: e is put behind
\* every entry whose key is not less than its own (the sort is stable)
RECURSIVE sort_insert(_, _)
sort_insert(sorted, e) ==
    IF sorted = <<>> THEN <<e>>
    ELSE IF abs_less(Head(sorted)[2], e[2]) THEN <<e>> \o sorted
    ELSE <<Head(sorted)>> \o sort_insert(Tail(sorted), e)

RECURSIVE sort_by_abs_variance(_, _, _)
sort_by_abs_variance(entries, i, sorted) ==
    IF i > Len(entries) THEN sorted
    ELSE sort_by_abs_variance(entries, i + 1, sort_insert(sorted, entries[i]))

\* expense_variances: (item, variance_pct, ytd_variance) of every expense item with
\* a budget that is not 0
expense_variances(items) ==
    LET budgeted == SelectSeq(items, LAMBDA kv : RecGet(kv[2], "ytd_budget", 0) # 0)
    IN  [i \in DOMAIN budgeted |->
            <<budgeted[i][1],
              percent(RecGet(budgeted[i][2], "ytd_variance", 0),
                      RecGet(budgeted[i][2], "ytd_budget", 1)),
              RecGet(budgeted[i][2], "ytd_variance", 0)>>]

TopExpenses == 5

\* the section "TOP EXPENSE VARIANCES (YTD)"
top_expense_lines(items) ==
    LET sorted == sort_by_abs_variance(expense_variances(items), 1, <<>>)
        top    == SubSeq(sorted, 1, IF Len(sorted) < TopExpenses THEN Len(sorted)
                                    ELSE TopExpenses)
    IN  [i \in DOMAIN top |->
            Line("  {item}: {:+.1f}% (${:+,.2f})", top[i][1],
                 <<Pct(top[i][2]), Amount(top[i][3])>>)]

generate_operating_summary_report(operating_data) ==
    << Text("OPERATING RESULTS SUMMARY"),
       Text("=================================================="),
       BlankLine >>
    \o operating_kpi_lines(operating_data)
    \o (IF "revenue" \in DOMAIN operating_data
        THEN <<Text("REVENUE PERFORMANCE:")>>
                 \o operating_revenue_lines(operating_data.revenue, 1)
        ELSE <<>>)
    \o (IF "operating_expenses" \in DOMAIN operating_data
        THEN <<Text("TOP EXPENSE VARIANCES (YTD):")>>
                 \o top_expense_lines(operating_data.operating_expenses)
        ELSE <<>>)

\* the lines of the revenue items of a branch breakdown from item i on
RECURSIVE branch_revenue_lines(_, _)
branch_revenue_lines(items, i) ==
    IF i > Len(items) THEN <<>>
    ELSE LET values == items[i][2]
             total  == RecGet(values, "armp_total", 0)
             army   == RecGet(values, "army", 0)
             navy   == RecGet(values, "navy", 0)
             usmc   == RecGet(values, "usmc", 0)
         IN  << Line("  {item}: ${:,.2f}", items[i][1], <<Amount(total)>>),
                Line("    Army: ${:,.2f} ({:.1f}%)", <<>>,
                     <<Amount(army), Pct(share_pct(army, total))>>),
                Line("    Navy: ${:,.2f} ({:.1f}%)", <<>>,
                     <<Amount(navy), Pct(share_pct(navy, total))>>),
                Line("    USMC: ${:,.2f} ({:.1f}%)", <<>>,
                     <<Amount(usmc), Pct(share_pct(usmc, total))>>),
                BlankLine >>
             \o branch_revenue_lines(items, i + 1)

\* the section "OPERATING INCOME BY BRANCH"
branch_income_lines(branch_data) ==
    IF "net_operating_income" \in DOMAIN branch_data
    THEN LET net_ops == DictGetOrEmpty(branch_data.net_operating_income,
                                       NetOperatingIncome)
         IN  <<Text("OPERATING INCOME BY BRANCH:")>>
             \o (IF net_ops # EmptyDict
                 THEN << Line("  Total: ${:,.2f}", <<>>,
                              <<Amount(RecGet(net_ops, "armp_total", 0))>>),
                         Line("    Army: ${:,.2f}", <<>>,
                              <<Amount(RecGet(net_ops, "army", 0))>>),
                         Line("    Navy: ${:,.2f}", <<>>,
                              <<Amount(RecGet(net_ops, "navy", 0))>>),
                         Line("    USMC: ${:,.2f}", <<>>,
                              <<Amount(RecGet(net_ops, "usmc", 0))>>),
                         BlankLine >>
                 ELSE <<>>)
    ELSE <<>>

\* the section "OPERATING MARGINS BY BRANCH"
branch_margin_lines(performance) ==
    IF DictHas(performance, OperatingMargin)
    THEN LET margins == DictGet(performance, OperatingMargin)
         IN  << Text("OPERATING MARGINS BY BRANCH:"),
                Line("  Army: {:.1f}%", <<>>,
                     <<Pct(RecGet(margins, "army_margin_pct", Zero))>>),
                Line("  Navy: {:.1f}%", <<>>,
                     <<Pct(RecGet(margins, "navy_margin_pct", Zero))>>),
                Line("  USMC: {:.1f}%", <<>>,
                     <<Pct(RecGet(margins, "usmc_margin_pct", Zero))>>),
                Line("  Overall: {:.1f}%", <<>>,
                     <<Pct(RecGet(margins, "armp_margin_pct", Zero))>>),
                BlankLine >>
    ELSE <<>>

generate_branch_summary_report(branch_data) ==
    << Text("BRANCH OF SERVICE PERFORMANCE SUMMARY"),
       Text("======================================================="),
       BlankLine >>
    \o (IF "revenue" \in DOMAIN branch_data
        THEN <<Text("REVENUE BY BRANCH:")>>
                 \o branch_revenue_lines(branch_data.revenue, 1)
        ELSE <<>>)
    \o branch_income_lines(branch_data)
    \o branch_margin_lines(calculate_branch_performance(branch_data))

\* a slip: total = amount, the total is the amount of the last item
total_last(items, i) == IF items = <<>> THEN 0 ELSE items[Len(items)][2]

\* total += amount, for the items from i on
RECURSIVE total_from(_, _)
total_from(items, i) ==
    IF i > Len(items) THEN 0 ELSE items[i][2] + total_from(items, i + 1)

\* a slip: a category without items gets its heading and its total too
balance_sheet_section_always(category, items) ==
    <<Line("{category.upper()}:", <<category>>, <<>>)>>
    \o [i \in DOMAIN items |->
           Line("  {item}: ${:,.2f}", items[i][1], <<Amount(items[i][2])>>)]
    \o << Line("  TOTAL {category.upper()}: ${:,.2f}", <<category>>,
               <<Amount(total_from(items, 1))>>),
          BlankLine >>

\* the section of one category of the balance-sheet report
balance_sheet_section(category, items) ==
    IF items # EmptyDict
    THEN <<Line("{category.upper()}:", <<category>>, <<>>)>>
         \o [i \in DOMAIN items |->
                Line("  {item}: ${:,.2f}", items[i][1], <<Amount(items[i][2])>>)]
         \o << Line("  TOTAL {category.upper()}: ${:,.2f}", <<category>>,
                    <<Amount(total_from(items, 1))>>),
               BlankLine >>
    ELSE <<>>

\* for category, items in financial_data.items(), from category i on
RECURSIVE balance_sheet_sections(_, _)
balance_sheet_sections(data, i) ==
    IF i > Len(Categories(data)) THEN <<>>
    ELSE balance_sheet_section(Categories(data)[i], data[Categories(data)[i]])
             \o balance_sheet_sections(data, i + 1)

generate_balance_sheet_summary_report(data) ==
    << Text("FINANCIAL STATEMENT SUMMARY"),
       Text("========================================"),
       BlankLine >>
    \o balance_sheet_sections(data, 1)

\* the dispatch of generate_summary_report
generate_summary_report(type, data) ==
    IF type = "branch_breakdown" THEN generate_branch_summary_report(data)
    ELSE IF type = "operating_results" THEN generate_operating_summary_report(data)
    ELSE generate_balance_sheet_summary_report(data)

-----------------------------------------------------------------------------
(* Exceptions: the exception a statement raises, or None, for the          *)
(* statements that can raise on page texts that are strings: float(), a    *)
(* subscript of a list or of a dictionary, and a division                  *)

\* the first exception of a sequence of statements
first_exception(es) ==
    LET hits == {i \in DOMAIN es : es[i] # None}
    IN  IF hits = {} THEN None ELSE es[Lowest(hits)]

\* an except clause for the classes `handled` around a block that raises e
uncaught(e, handled) == IF e \in handled THEN None ELSE e

\* except (ValueError, IndexError): continue
ItemsExcept == {"ValueError", "IndexError"}

\* except ValueError: continue
FinancialExcept == {"ValueError"}

\* the try block of the line parsers and of the locators: float() of the first n
\* amounts, then values[0] .. values[n - 1]
values_exception(amounts, n) ==
    LET m == IF Len(amounts) < n THEN Len(amounts) ELSE n
    IN  IF \E i \in 1..m : parse_amount(amounts[i]).raised THEN "ValueError"
        ELSE IF m < n THEN "IndexError"
        ELSE None

\* the try block of one line of a line parser, for the stripped line and its
\* amounts: entered when the line is no separator and holds n amounts and a label
line_exception(line, amounts, n) ==
    IF line = <<>> \/ startswith(line, <<"-">>) \/ startswith(line, <<"=">>) THEN None
    ELSE IF Len(amounts) >= n /\ label_match(line) # -1 THEN values_exception(amounts, n)
    ELSE None

\* the loop over the lines of a section, its try block under an except clause
\* for the classes `handled`
lines_exception(lines, n, handled) ==
    first_exception([i \in DOMAIN lines |->
        uncaught(line_exception(strip(lines[i]), findall_amounts(strip(lines[i])), n),
                 handled)])

\* a slip: the try block is not guarded by an except clause
items_exception_unguarded(section_text, n) == lines_exception(split(section_text), n, {})

\* _parse_budget_actual_items (n = 6) and _parse_branch_items (n = 4)
items_exception(section_text, n) == lines_exception(split(section_text), n, ItemsExcept)

\* the try block of one line of a locator, entered when the line holds the
\* identifier and n amounts
summary_line_exception(line, amounts, line_identifier, n) ==
    IF Contains(line, line_identifier) /\ Len(amounts) >= n
    THEN uncaught(values_exception(amounts, n), ItemsExcept)
    ELSE None

\* the loop over the lines of the page of a locator
summary_lines_exception(lines, line_identifier, n) ==
    first_exception([i \in DOMAIN lines |->
        summary_line_exception(lines[i], findall_amounts(lines[i]), line_identifier, n)])

\* _extract_summary_line (n = 6) and _extract_branch_summary_line (n = 4)
summary_exception(text, line_identifier, n) ==
    summary_lines_exception(split(text), line_identifier, n)

\* the loop over the lines of a balance-sheet section: float(amount_str) in the
\* try block of a line that matches
financial_lines_exception(lines) ==
    first_exception([i \in DOMAIN lines |->
        IF financial_item(lines[i]).raised
        THEN uncaught("ValueError", FinancialExcept)
        ELSE None])

\* _parse_financial_items
financial_items_exception(section_text) == financial_lines_exception(split(section_text))

SummaryIdentifiers == <<NetRevenue, NetOperatingIncome, InterestRevenue, NetIncomeLoss>>

\* the start marker and the end marker of the sections of a statement page
StatementSections ==
    << <<Revenue, DirectNAFI>>,
       <<DirectNAFI, NetRevenue>>,
       <<OperatingExpenses, TotalOperatingExpenses>> >>

\* the start marker and the end marker of the sections of a balance sheet
FinancialSectionMarkers ==
    << <<ASSETS, LIABILITIES>>,
       <<LIABILITIES, EQUITY>>,
       <<EQUITY, TOTAL_LIABILITIES>> >>

\* the body of `for page in pdf.pages` of extract_operating_results (n = 6) and
\* of extract_branch_breakdown (n = 4)
statement_page_exception(text, n) ==
    first_exception(
        [k \in DOMAIN StatementSections |->
            items_exception(
                _extract_section(text, StatementSections[k][1], StatementSections[k][2]), n)]
        \o [k \in DOMAIN SummaryIdentifiers |-> summary_exception(text, SummaryIdentifiers[k], n)])

\* the body of `for page in pdf.pages` of _extract_balance_sheet_data
balance_sheet_page_exception(text) ==
    first_exception(
        [k \in DOMAIN FinancialSectionMarkers |->
            financial_items_exception(
                _extract_section(text, FinancialSectionMarkers[k][1],
                                 FinancialSectionMarkers[k][2]))])

\* (a / b * 100) if b != 0 else 0
guarded_division(b) ==
    IF b # 0 THEN (IF b = 0 THEN "ZeroDivisionError" ELSE None) ELSE None

\* values[k]
subscript(values, k) == IF k \in DOMAIN values THEN None ELSE "KeyError"

\* calculate_variance_analysis, for the items of all categories
variance_analysis_exception(data) ==
    IF ~values_are_dicts(data) THEN None
    ELSE first_exception(
             [c \in DOMAIN Categories(data) |->
                 LET items == data[Categories(data)[c]]
                 IN  first_exception([i \in DOMAIN items |->
                         IF "march_budget" \in DOMAIN items[i][2]
                         THEN first_exception(
                                  << subscript(items[i][2], "ytd_budget"),
                                     subscript(items[i][2], "march_variance"),
                                     guarded_division(items[i][2].march_budget),
                                     subscript(items[i][2], "ytd_variance"),
                                     guarded_division(items[i][2].ytd_budget) >>)
                         ELSE None])])

\* calculate_branch_performance: the shares of the revenue items and the margins
branch_performance_exception(data) ==
    IF ~values_are_dicts(data) THEN None
    ELSE LET revenue == data.revenue
             shares  == [i \in DOMAIN revenue |->
                            IF RecGet(revenue[i][2], "armp_total", 0) # 0
                            THEN first_exception(
                                     << subscript(revenue[i][2], "army"),
                                        guarded_division(revenue[i][2].armp_total),
                                        subscript(revenue[i][2], "navy"),
                                        subscript(revenue[i][2], "usmc") >>)
                            ELSE None]
             k       == total_revenue_index(revenue)
             margins == IF k # 0
                        THEN << guarded_division(RecGet(revenue[k][2], "army", 0)),
                                guarded_division(RecGet(revenue[k][2], "navy", 0)),
                                guarded_division(RecGet(revenue[k][2], "usmc", 0)),
                                guarded_division(RecGet(revenue[k][2], "armp_total", 0)) >>
                        ELSE <<>>
         IN  first_exception(shares \o margins)

\* generate_summary_report: the divisions of the report of the type (the
\* balance-sheet report divides nothing)
report_exception(type, data) ==
    IF type = "operating_results"
    THEN first_exception(
             [i \in DOMAIN data.revenue |->
                 guarded_division(RecGet(data.revenue[i][2], "ytd_budget", 0))]
             \o [i \in DOMAIN data.operating_expenses |->
                    guarded_division(RecGet(data.operating_expenses[i][2], "ytd_budget", 0))])
    ELSE IF type = "branch_breakdown"
    THEN first_exception(
             [i \in DOMAIN data.revenue |->
                 guarded_division(RecGet(data.revenue[i][2], "armp_total", 0))]
             \o <<branch_performance_exception(data)>>)
    ELSE None

-----------------------------------------------------------------------------
(* Spec: extract_financial_data on every document of up to MaxPages pages  *)
(* of a vocabulary of pages                                                *)

TextLine(label) == [indent |-> 0, gap |-> 1, label |-> label, toks |-> <<>>]

ItemLine(label, toks) == [indent |-> 0, gap |-> 1, label |-> label, toks |-> toks]

FeesLabel == <<"F","e","e","s">>

BingoLabel == <<"B","i","n","g","o">>

\* first page of an operating statement
PageOperatingA ==
    << TextLine(OperatingMarker),
       TextLine(Revenue),
       ItemLine(SlotsLabel, <<Tok1, Tok2, Tok3m, Tok4, Tok5, Tok6>>),
       TextLine(DirectNAFI),
       ItemLine(NetRevenue, <<Tok9, Tok8, Tok7, Tok6, Tok5, Tok4m>>) >>

\* a following page: no type marker, no summary line, no "Direct NAFI"
PageOperatingB ==
    << TextLine(Revenue),
       ItemLine(SlotsLabel, <<Tok7, Tok8, Tok9, Tok1, Tok2, Tok3>>),
       ItemLine(BingoLabel, <<Tok1c0, Tok2p5, Tok3, Tok4>>),
       TextLine(OperatingExpenses),
       ItemLine(FeesLabel, <<Tok1, Tok2, Tok3, Tok4, Tok5, Tok6>>),
       ItemLine(TotalOperatingExpenses, <<Tok2, Tok2, Tok2, Tok2, Tok2, Tok2>>) >>

\* a branch statement whose revenue section names Slots twice
PageBranchA ==
    << TextLine(BranchMarker),
       TextLine(Revenue),
       ItemLine(SlotsLabel, <<Tok1, Tok2, Tok3m, Tok4>>),
       ItemLine(SlotsLabel, <<Tok7, Tok8, Tok9, Tok1>>),
       TextLine(DirectNAFI),
       ItemLine(NetOperatingIncome, <<Tok4, Tok3, Tok2, Tok1>>) >>

\* a page that holds two type markers
PageBothMarkers ==
    << TextLine(BranchMarker),
       TextLine(OperatingMarker),
       ItemLine(InterestRevenue, <<Tok5, Tok5, Tok5, Tok5, Tok5, Tok5>>) >>

PageBalanceSheet ==
    << TextLine(BalanceSheetMarker),
       TextLine(ASSETS),
       ItemLine(<<"C","a","s","h","-","-","B","a","n","k">>, <<Tok1c0>>),
       ItemLine(<<"L","e","s","s"," ","D","e","p">>, <<Tok4m>>),
       TextLine(LIABILITIES),
       ItemLine(<<"L","o","a","n","s">>, <<Tok7>>),
       TextLine(EQUITY),
       ItemLine(<<"F","u","n","d">>, <<Tok3>>),
       ItemLine(TOTAL_LIABILITIES, <<Tok9>>) >>

\* a page without text
PageBlank == <<>>

\* a page of prose
PageNotes == << TextLine(<<"N","o","t","e","s">>) >>

PageVocabulary ==
    {PageOperatingA, PageOperatingB, PageBranchA, PageBothMarkers, PageBalanceSheet,
     PageBlank, PageNotes}

Documents == UNION {[1..n -> PageVocabulary] : n \in 1..MaxPages}

\* page.extract_text() of every page of the document
PageTexts(document) == [p \in DOMAIN document |-> SectionText(document[p])]

\* the public methods that detect the type and extract the data
EntryPoints == {"extract_financial_data", "generate_summary_report", "export_to_dataframes"}

Init ==
    /\ call \in [fn : EntryPoints, document : Documents]
    /\ pdf_pages = PageTexts(call.document)
    /\ statement_type = None
    /\ pc = "start"
    /\ page_no = 0
    /\ detected = None
    /\ financial_data = <<>>
    /\ ret = <<>>

\* statement_type = self.detect_statement_type()
DetectStatementType ==
    /\ pc = "start"
    /\ call.fn \in EntryPoints
    /\ detected' = detect_statement_type(pdf_pages)
    /\ pc' = "dispatch"
    /\ UNCHANGED <<pdf_pages, statement_type, page_no, financial_data, call, ret>>

\* the call of the extraction method: the result dictionary is created and the
\* page loop begins
BeginPages(type, loop, empty) ==
    /\ pc = "dispatch"
    /\ detected = type
    /\ financial_data' = empty
    /\ page_no' = 1
    /\ pc' = loop
    /\ UNCHANGED <<pdf_pages, statement_type, detected, call, ret>>

ExtractBranchBreakdown == BeginPages("branch_breakdown", "branch", EmptyStatement)

ExtractOperatingResults == BeginPages("operating_results", "operating", EmptyStatement)

ExtractBalanceSheetData == BeginPages("balance_sheet", "balance", EmptyBalanceSheet)

ExtractGenericFinancialData ==
    /\ pc = "dispatch"
    /\ detected = "unknown"
    /\ financial_data' = _extract_generic_financial_data
    /\ pc' = "done"
    /\ UNCHANGED <<pdf_pages, statement_type, page_no, detected, call, ret>>

NextPage(data) ==
    /\ financial_data' = data
    /\ page_no' = page_no + 1
    /\ UNCHANGED <<pdf_pages, statement_type, pc, detected, call, ret>>

\* an exception leaves the method: nothing is returned
Raise(e) ==
    /\ pc' = "raised"
    /\ ret' = e
    /\ UNCHANGED <<pdf_pages, statement_type, page_no, detected, financial_data, call>>

\* the page is processed, unless an exception e leaves its processing
PageOutcome(e, data) == IF e = None THEN NextPage(data) ELSE Raise(e)

\* the method returns the value, unless an exception e leaves it
ReturnOrRaise(e, value) ==
    IF e = None
    THEN /\ ret' = value
         /\ pc' = "returned"
         /\ UNCHANGED <<pdf_pages, statement_type, page_no, detected, financial_data, call>>
    ELSE Raise(e)

OperatingPage ==
    /\ pc = "operating"
    /\ page_no <= Len(pdf_pages)
    /\ PageOutcome(statement_page_exception(pdf_pages[page_no], OperatingArity),
                   operating_page(financial_data, pdf_pages[page_no]))

BranchPage ==
    /\ pc = "branch"
    /\ page_no <= Len(pdf_pages)
    /\ PageOutcome(statement_page_exception(pdf_pages[page_no], BranchArity),
                   branch_page(financial_data, pdf_pages[page_no]))

BalanceSheetPage ==
    /\ pc = "balance"
    /\ page_no <= Len(pdf_pages)
    /\ PageOutcome(balance_sheet_page_exception(pdf_pages[page_no]),
                   balance_sheet_page(financial_data, pdf_pages[page_no]))

\* the page loop is over: the dictionary is returned
ReturnFinancialData ==
    /\ pc \in {"operating", "branch", "balance"}
    /\ page_no > Len(pdf_pages)
    /\ pc' = "done"
    /\ UNCHANGED <<pdf_pages, statement_type, page_no, detected, financial_data, call, ret>>

\* generate_summary_report: the report of the data extract_financial_data returned
GenerateSummaryReport ==
    /\ pc = "done"
    /\ call.fn = "generate_summary_report"
    /\ ReturnOrRaise(report_exception(detected, financial_data),
                     generate_summary_report(detected, financial_data))

\* export_to_dataframes: the rows of the data extract_financial_data returned
ExportToDataframes ==
    /\ pc = "done"
    /\ call.fn = "export_to_dataframes"
    /\ ret' = export_to_dataframes(detected, financial_data)
    /\ pc' = "returned"
    /\ UNCHANGED <<pdf_pages, statement_type, page_no, detected, financial_data, call>>

Next ==
    \/ DetectStatementType
    \/ ExtractBranchBreakdown
    \/ ExtractOperatingResults
    \/ ExtractBalanceSheetData
    \/ ExtractGenericFinancialData
    \/ OperatingPage
    \/ BranchPage
    \/ BalanceSheetPage
    \/ ReturnFinancialData
    \/ GenerateSummaryReport
    \/ ExportToDataframes

Spec == Init /\ [][Next]_vars

\* the marker occurs in the text of some page (a marker holds no newline, so it
\* cannot straddle two pages of the concatenated text)
InDocument(marker) == \E p \in DOMAIN pdf_pages : Occurrences(pdf_pages[p], marker) # {}

\* C1: the detected type is branch_breakdown when the document text contains
\* "Branch of Service"; otherwise operating_results when it contains "Actual vs
\* Budget"; otherwise balance_sheet when it contains "Statement of Financial
\* Condition"; otherwise unknown. A text with both of the first two markers is a
\* branch breakdown.
C1_DetectPriority ==
    pc # "start" =>
        detected = IF InDocument(BranchMarker) THEN "branch_breakdown"
                   ELSE IF InDocument(OperatingMarker) THEN "operating_results"
                   ELSE IF InDocument(BalanceSheetMarker) THEN "balance_sheet"
                   ELSE "unknown"

\* "Actual vs Budget" on page 1, "Branch of Service" on page 2: a branch breakdown
C1_Witness ==
    /\ pc = "dispatch"
    /\ Len(pdf_pages) = 2
    /\ Occurrences(pdf_pages[1], OperatingMarker) # {}
    /\ Occurrences(pdf_pages[1], BranchMarker) = {}
    /\ Occurrences(pdf_pages[2], BranchMarker) # {}
    /\ detected = "branch_breakdown"

ItemCategories == {"revenue", "direct_reimbursement", "operating_expenses"}

\* the start and end markers of the section of a category
CategoryMarkers(category) ==
    CASE category = "revenue"              -> <<Revenue, DirectNAFI>>
      [] category = "direct_reimbursement" -> <<DirectNAFI, NetRevenue>>
      [] category = "operating_expenses"   -> <<OperatingExpenses, TotalOperatingExpenses>>

\* the lines of the section of the category on page p
SectionLines(p, category) ==
    split(_extract_section(pdf_pages[p], CategoryMarkers(category)[1],
                           CategoryMarkers(category)[2]))

StatementArity ==
    IF detected = "operating_results" THEN OperatingArity ELSE BranchArity

StatementRecord(values) ==
    IF detected = "operating_results" THEN operating_record(values)
    ELSE branch_record(values)

\* what line j of the section of the category on page p parses to
ItemAt(o, category) == line_item(SectionLines(o[1], category)[o[2]], StatementArity)

\* the <<page, line>> positions, on the pages processed so far, that parse to an
\* item of the category
ParsedOccurrences(category) ==
    UNION {{<<p, j>> : j \in {k \in DOMAIN SectionLines(p, category) :
                                  ItemAt(<<p, k>>, category).store}} :
           p \in 1..(page_no - 1)}

\* o2 comes after o1 in document order: a later page, or a later line of the page
Later(o1, o2) == o2[1] > o1[1] \/ (o2[1] = o1[1] /\ o2[2] > o1[2])

\* C7: pages are merged in ascending page order, the last write wins: after the
\* pages 1..page_no-1, each item category holds exactly the item names parsed on
\* those pages, and for each name the values of its last occurrence in document
\* order (the later line within a section, the later page across pages).
C7_LastWriteWins ==
    pc \in {"operating", "branch", "done"}
        /\ detected \in {"operating_results", "branch_breakdown"} =>
    \A category \in ItemCategories :
        LET occ   == ParsedOccurrences(category)
            items == financial_data[category]
        IN  /\ {items[i][1] : i \in DOMAIN items}
                   = {ItemAt(o, category).item_name : o \in occ}
            /\ \A o \in occ :
                   LET item == ItemAt(o, category)
                   IN  (\A o2 \in occ : ItemAt(o2, category).item_name = item.item_name
                                            => ~Later(o, o2))
                           => DictGet(items, item.item_name) = StatementRecord(item.values)

\* Slots is an item of the revenue section of page 1 and of page 2: the result
\* holds the values of page 2
C7_Witness ==
    /\ pc = "done"
    /\ call.document = <<PageOperatingA, PageOperatingB>>
    /\ \E o1, o2 \in ParsedOccurrences("revenue") :
           /\ o1[1] = 1 /\ o2[1] = 2
           /\ ItemAt(o1, "revenue").item_name = SlotsLabel
           /\ ItemAt(o2, "revenue").item_name = SlotsLabel
           /\ ItemAt(o1, "revenue").values # ItemAt(o2, "revenue").values
           /\ DictGet(financial_data.revenue, SlotsLabel)
                  = operating_record(ItemAt(o2, "revenue").values)

\* the summary identifiers and the category each is stored under
SummaryLines ==
    {[identifier |-> NetRevenue,         category |-> "net_revenue"],
     [identifier |-> NetOperatingIncome, category |-> "net_operating_income"],
     [identifier |-> InterestRevenue,    category |-> "other_income"],
     [identifier |-> NetIncomeLoss,      category |-> "net_income"]}

\* C9 as stated: when a summary identifier is on no line of any page, its category
\* is absent from the extraction output.
C9_CategoryAbsent ==
    pc = "done" /\ detected \in {"operating_results", "branch_breakdown"} =>
        \A s \in SummaryLines :
            ~InDocument(s.identifier) => s.category \notin DOMAIN financial_data

\* C9: when a summary identifier is on no line of any page, nothing is stored for
\* it: its category is in the extraction output and holds no entry.
C9_CategoryEmpty ==
    pc = "done" /\ detected \in {"operating_results", "branch_breakdown"} =>
        \A s \in SummaryLines :
            ~InDocument(s.identifier) =>
                /\ s.category \in DOMAIN financial_data
                /\ financial_data[s.category] = EmptyDict

\* an operating statement with a "Net Revenue" line and no "Net Operating Income"
C9_Witness ==
    /\ pc = "done"
    /\ detected = "operating_results"
    /\ InDocument(NetRevenue)
    /\ ~InDocument(NetOperatingIncome)
    /\ financial_data.net_revenue # EmptyDict
    /\ financial_data.net_operating_income = EmptyDict

\* none of the three marker phrases is in the document
NoMarker ==
    /\ ~InDocument(BranchMarker)
    /\ ~InDocument(OperatingMarker)
    /\ ~InDocument(BalanceSheetMarker)

\* C11: when the document holds none of the three marker phrases, the type is
\* unknown, no page is parsed, extract_financial_data returns the placeholder (the
\* single category "unknown_data", without items), and generate_summary_report
\* returns the balance-sheet report made of its title alone, without any section.
C11_UnknownPlaceholder ==
    NoMarker =>
        /\ pc # "start" => detected = "unknown"
        /\ pc \notin {"operating", "branch", "balance"}
        /\ pc \in {"done", "returned"} =>
               /\ DOMAIN financial_data = {"unknown_data"}
               /\ financial_data.unknown_data = EmptyDict
        /\ pc = "returned" /\ call.fn = "generate_summary_report" =>
               ret = << [template |-> "FINANCIAL STATEMENT SUMMARY",
                         item |-> <<>>, args |-> <<>>],
                        [template |-> "========================================",
                         item |-> <<>>, args |-> <<>>],
                        [template |-> "", item |-> <<>>, args |-> <<>>] >>

\* the report of a document of a page of prose and a page without text
C11_Witness ==
    /\ pc = "returned"
    /\ call.fn = "generate_summary_report"
    /\ call.document = <<PageNotes, PageBlank>>
    /\ NoMarker
    /\ detected = "unknown"
    /\ financial_data = [unknown_data |-> <<>>]
    /\ Len(ret) = 3

-----------------------------------------------------------------------------
(* SpecMetrics: the derived metrics, the report formatters and the rows of   *)
(* the export, on CategoryMaps of every statement type                       *)

\* most items of one category of an input CategoryMap
MaxItems == 2

Scaled(values) == [i \in DOMAIN values |-> values[i] * Scale]

TotalRevenue == <<"T","o","t","a","l"," ","R","e","v","e","n","u","e">>

NetGamingLabel ==
    <<"N","e","t"," ","G","a","m","i","n","g"," ","M","a","c","h","i","n","e"," ",
      "R","e","v","e","n","u","e">>

RentLabel == <<"R","e","n","t">>

BankLabel == <<"B","a","n","k">>

DepLabel == <<"D","e","p">>

\* the dictionaries of at most MaxItems items with names of `names` and values of
\* `values`, in every insertion order
ItemDicts(names, values) ==
    UNION {{d \in [1..n -> names \X values] :
                \A i, j \in 1..n : d[i][1] = d[j][1] => i = j} : n \in 0..MaxItems}

\* under budget in March and over in the year; no budget; negative budgets
OperatingValues ==
    {operating_record(Scaled(<<1, 2, -1, 6, 4, 2>>)),
     operating_record(Scaled(<<3, 0, 3, 5, 0, 5>>)),
     operating_record(Scaled(<<5, -2, 7, 1, -8, 2>>))}

\* two expenses whose YTD variances are 50% of the budget, over and under
ExpenseValues ==
    {operating_record(Scaled(<<1, 2, -1, 6, 4, 2>>)),
     operating_record(Scaled(<<2, 4, -2, 1, 4, -2>>))}

\* a total shared by three branches; a total of 0; a branch of 0
BranchValues ==
    {branch_record(Scaled(<<10, 5, 3, 2>>)),
     branch_record(Scaled(<<0, 5, -5, 0>>)),
     branch_record(Scaled(<<4, 0, 3, 1>>))}

BranchIncomeValues ==
    {branch_record(Scaled(<<2, 1, 1, 0>>)),
     branch_record(Scaled(<<-3, -3, 0, 0>>))}

BalanceSheetAmounts == {10 * Scale, -4 * Scale, 0}

\* the dictionaries with the single key `name`, and the empty one
SummaryDicts(name, values) == {EmptyDict} \cup {<< <<name, v>> >> : v \in values}

OperatingInputs ==
    {[EmptyStatement EXCEPT !.revenue = r, !.operating_expenses = e, !.net_revenue = n] :
        r \in ItemDicts({SlotsLabel, TotalRevenue}, OperatingValues),
        e \in ItemDicts({FeesLabel, RentLabel}, ExpenseValues),
        n \in SummaryDicts(NetRevenue, {operating_record(Scaled(<<9, 8, 1, 7, 6, 1>>))})}

BranchInputs ==
    {[EmptyStatement EXCEPT !.revenue = r, !.net_operating_income = n] :
        r \in ItemDicts({SlotsLabel, TotalRevenue, GamingMachineRevenue, NetGamingLabel},
                        BranchValues),
        n \in SummaryDicts(NetOperatingIncome, BranchIncomeValues)}

BalanceSheetInputs ==
    {[EmptyBalanceSheet EXCEPT !.assets = a, !.liabilities = l] :
        a \in ItemDicts({BankLabel, DepLabel}, BalanceSheetAmounts),
        l \in ItemDicts({BankLabel}, {7 * Scale})}

\* the statement type detected and the CategoryMap extracted for it
MetricInputs ==
    {[type |-> "operating_results", data |-> d] : d \in OperatingInputs}
    \cup {[type |-> "branch_breakdown", data |-> d] : d \in BranchInputs}
    \cup {[type |-> "balance_sheet", data |-> d] : d \in BalanceSheetInputs}
    \cup {[type |-> "unknown", data |-> _extract_generic_financial_data]}

InitMetrics ==
    /\ pdf_pages = <<>>
    /\ statement_type = None
    /\ page_no = 0
    /\ \E input \in MetricInputs :
           /\ detected = input.type
           /\ financial_data = input.data
    /\ pc = "idle"
    /\ call = [fn |-> "none"]
    /\ ret = <<>>

\* the method fn is called with the CategoryMap and returns value
Returns(fn, value) ==
    /\ call' = [fn |-> fn]
    /\ ret' = value
    /\ pc' = "return"
    /\ UNCHANGED <<pdf_pages, statement_type, page_no, detected, financial_data>>

CalculateVarianceAnalysis ==
    Returns("calculate_variance_analysis", calculate_variance_analysis(financial_data))

CalculateBranchPerformance ==
    Returns("calculate_branch_performance", calculate_branch_performance(financial_data))

\* a slip: the formatter takes the "Net Revenue" record out of the CategoryMap
\* (pop) to print it
GenerateOperatingSummaryReport_popping ==
    /\ detected = "operating_results"
    /\ call' = [fn |-> "generate_operating_summary_report"]
    /\ ret' = generate_operating_summary_report(financial_data)
    /\ pc' = "return"
    /\ financial_data' = [financial_data EXCEPT !.net_revenue = EmptyDict]
    /\ UNCHANGED <<pdf_pages, statement_type, page_no, detected>>

GenerateOperatingSummaryReport ==
    /\ detected = "operating_results"
    /\ Returns("generate_operating_summary_report",
               generate_operating_summary_report(financial_data))

GenerateBranchSummaryReport ==
    /\ detected = "branch_breakdown"
    /\ Returns("generate_branch_summary_report",
               generate_branch_summary_report(financial_data))

GenerateBalanceSheetSummaryReport ==
    /\ detected \in {"balance_sheet", "unknown"}
    /\ Returns("generate_balance_sheet_summary_report",
               generate_balance_sheet_summary_report(financial_data))

\* the rows export_to_dataframes builds from the type and the data
ExportRows ==
    Returns("export_to_dataframes", export_to_dataframes(detected, financial_data))

NextMetrics ==
    \/ CalculateVarianceAnalysis
    \/ CalculateBranchPerformance
    \/ GenerateOperatingSummaryReport
    \/ GenerateBranchSummaryReport
    \/ GenerateBalanceSheetSummaryReport
    \/ ExportRows

SpecMetrics == InitMetrics /\ [][NextMetrics]_vars

\* p is the number part / whole * 100 when whole is not 0, and is 0 when it is 0
IsPercentOf(p, part, whole) ==
    IF whole = 0 THEN p.num = 0
    ELSE p.den # 0 /\ p.num * whole = part * 100 * p.den

\* the lines of a report printed with the format string `template`
LinesOf(report, template) == SelectSeq(report, LAMBDA l : l.template = template)

\* the items of the category that have budget fields
BudgetItems(category) ==
    SelectSeq(financial_data[category], LAMBDA kv : "march_budget" \in DOMAIN kv[2])

\* C12: for every record with budget fields, the March and the YTD variance
\* percentage are variance / budget * 100 when the budget is not 0 and are 0 when
\* it is 0: in the result of calculate_variance_analysis, in the rows of the
\* export, and in the operating report (which prints the YTD percentage of every
\* revenue item and of the expenses it lists).
C12_VariancePercent ==
    pc = "return" /\ detected = "operating_results" =>
        /\ call.fn = "calculate_variance_analysis" =>
               \A category \in DOMAIN financial_data :
                   LET items == BudgetItems(category)
                   IN  /\ Len(ret[category]) = Len(items)
                       /\ \A i \in DOMAIN items :
                              /\ ret[category][i][1] = items[i][1]
                              /\ IsPercentOf(ret[category][i][2].march_variance_pct,
                                             items[i][2].march_variance,
                                             items[i][2].march_budget)
                              /\ IsPercentOf(ret[category][i][2].ytd_variance_pct,
                                             items[i][2].ytd_variance,
                                             items[i][2].ytd_budget)
        /\ call.fn = "export_to_dataframes" =>
               \A category \in DOMAIN financial_data :
                   \A i \in DOMAIN financial_data[category] :
                       LET item == financial_data[category][i]
                       IN  \E k \in DOMAIN ret.rows :
                               /\ ret.rows[k].category = category
                               /\ ret.rows[k].line_item = item[1]
                               /\ IsPercentOf(ret.rows[k].march_variance_pct,
                                              item[2].march_variance, item[2].march_budget)
                               /\ IsPercentOf(ret.rows[k].ytd_variance_pct,
                                              item[2].ytd_variance, item[2].ytd_budget)
        /\ call.fn = "generate_operating_summary_report" =>
               LET printed  == LinesOf(ret, "    Variance: {:+.1f}%")
                   expenses == LinesOf(ret, "  {item}: {:+.1f}% (${:+,.2f})")
               IN  /\ Len(printed) = Len(financial_data.revenue)
                   /\ \A i \in DOMAIN printed :
                          IsPercentOf(printed[i].args[1].pct,
                                      financial_data.revenue[i][2].ytd_variance,
                                      financial_data.revenue[i][2].ytd_budget)
                   /\ \A i \in DOMAIN expenses :
                          /\ DictHas(financial_data.operating_expenses, expenses[i].item)
                          /\ LET values == DictGet(financial_data.operating_expenses,
                                                   expenses[i].item)
                             IN  IsPercentOf(expenses[i].args[1].pct,
                                             values.ytd_variance, values.ytd_budget)

\* Slots has no budget and a variance, Total Revenue is 1 under a budget of 2 in
\* March: 0% and -50%
C12_Witness ==
    /\ pc = "return"
    /\ call.fn = "calculate_variance_analysis"
    /\ detected = "operating_results"
    /\ Len(financial_data.revenue) = 2
    /\ financial_data.revenue[1][1] = SlotsLabel
    /\ financial_data.revenue[1][2].march_budget = 0
    /\ financial_data.revenue[1][2].march_variance # 0
    /\ financial_data.revenue[2][2].march_budget = 2 * Scale
    /\ financial_data.revenue[2][2].march_variance = -Scale
    /\ ret.revenue[1][2].march_variance_pct = [num |-> 0, den |-> 1]
    /\ ret.revenue[2][2].march_variance_pct = [num |-> -50, den |-> 1]

\* C13 as stated: for every revenue item of a branch breakdown, the share of army,
\* navy and usmc is branch value / armp_total * 100, and is 0 for every branch
\* when armp_total is 0: in the result of calculate_branch_performance and in the
\* rows of the export.
C13_BranchShare ==
    pc = "return" /\ detected = "branch_breakdown" =>
        \A i \in DOMAIN financial_data.revenue :
            LET item_name == financial_data.revenue[i][1]
                values    == financial_data.revenue[i][2]
            IN  /\ call.fn = "calculate_branch_performance" =>
                       /\ DictHas(ret, item_name)
                       /\ IsPercentOf(DictGet(ret, item_name).army_share_pct,
                                      values.army, values.armp_total)
                       /\ IsPercentOf(DictGet(ret, item_name).navy_share_pct,
                                      values.navy, values.armp_total)
                       /\ IsPercentOf(DictGet(ret, item_name).usmc_share_pct,
                                      values.usmc, values.armp_total)
                /\ call.fn = "export_to_dataframes" =>
                       \E k \in DOMAIN ret.rows :
                           /\ ret.rows[k].category = "revenue"
                           /\ ret.rows[k].line_item = item_name
                           /\ IsPercentOf(ret.rows[k].army_pct, values.army, values.armp_total)
                           /\ IsPercentOf(ret.rows[k].navy_pct, values.navy, values.armp_total)
                           /\ IsPercentOf(ret.rows[k].usmc_pct, values.usmc, values.armp_total)

\* the operating margins reported are those of the net operating income over the
\* revenue item at index t, and there is none when t is 0 or the income is missing
MarginOver(t) ==
    LET income == financial_data.net_operating_income
    IN  IF t # 0 /\ DictHas(income, NetOperatingIncome)
        THEN /\ DictHas(ret, OperatingMargin)
             /\ LET margins == DictGet(ret, OperatingMargin)
                    net     == DictGet(income, NetOperatingIncome)
                    total   == financial_data.revenue[t][2]
                IN  /\ IsPercentOf(margins.army_margin_pct, net.army, total.army)
                    /\ IsPercentOf(margins.navy_margin_pct, net.navy, total.navy)
                    /\ IsPercentOf(margins.usmc_margin_pct, net.usmc, total.usmc)
                    /\ IsPercentOf(margins.armp_margin_pct, net.armp_total,
                                   total.armp_total)
        ELSE ~DictHas(ret, OperatingMargin)

\* the index of the first revenue item whose name is in the set `names`, or 0
FirstNamed(names) ==
    LET hits == {i \in DOMAIN financial_data.revenue : financial_data.revenue[i][1] \in names}
    IN  IF hits = {} THEN 0 ELSE Least(hits)

RevenueNames == {financial_data.revenue[i][1] : i \in DOMAIN financial_data.revenue}

\* C14 as stated: the denominator of the operating margin is the first revenue item
\* whose name contains "Total" or equals "Gaming Machine Revenue".
C14_DenominatorEqualName ==
    pc = "return" /\ call.fn = "calculate_branch_performance"
        /\ detected = "branch_breakdown" =>
    MarginOver(FirstNamed({n \in RevenueNames :
                              Occurrences(n, Total) # {} \/ n = GamingMachineRevenue}))

\* C14: the denominator of the operating margin is the first revenue item (in
\* CategoryMap order) whose name contains "Total" or contains "Gaming Machine
\* Revenue"; when there is such an item and a "Net Operating Income" item, the
\* margin of army, navy, usmc and armp_total is net operating income / that item's
\* value * 100, or 0 when that value is 0; otherwise no margin is reported.
C14_OperatingMargin ==
    pc = "return" /\ call.fn = "calculate_branch_performance"
        /\ detected = "branch_breakdown" =>
    MarginOver(FirstNamed({n \in RevenueNames :
                              \/ Occurrences(n, Total) # {}
                              \/ Occurrences(n, GamingMachineRevenue) # {}}))

\* "Net Gaming Machine Revenue" comes before "Total Revenue": the margins are those
\* over the former (army 1 of 5, 20%), not over the latter (army 1 of 0)
C14_Witness ==
    /\ pc = "return"
    /\ call.fn = "calculate_branch_performance"
    /\ detected = "branch_breakdown"
    /\ Len(financial_data.revenue) = 2
    /\ financial_data.revenue[1][1] = NetGamingLabel
    /\ financial_data.revenue[1][2].army = 5 * Scale
    /\ financial_data.revenue[2][1] = TotalRevenue
    /\ financial_data.revenue[2][2].army = 0
    /\ DictHas(financial_data.net_operating_income, NetOperatingIncome)
    /\ DictGet(financial_data.net_operating_income, NetOperatingIncome).army = Scale
    /\ DictHas(ret, OperatingMargin)
    /\ DictGet(ret, OperatingMargin).army_margin_pct = [num |-> 20, den |-> 1]

Formatters ==
    {"generate_operating_summary_report", "generate_branch_summary_report",
     "generate_balance_sheet_summary_report"}

ItemPairs == UNION {{<<c, i>> : i \in DOMAIN financial_data[c]} : c \in DOMAIN financial_data}

\* the item name a row carries
RowName(row) == IF "line_item" \in DOMAIN row THEN row.line_item ELSE row.item

OperatingFields ==
    {"march_actual", "march_budget", "march_variance", "ytd_actual", "ytd_budget", "ytd_variance"}

BranchFields == {"armp_total", "army", "navy", "usmc"}

\* the row holds the fields of the item's value for the statement type and the
\* percentages derived from them, and nothing else
RowCarries(row, type, value) ==
    IF type = "operating_results"
    THEN /\ DOMAIN row = {"category", "line_item", "march_variance_pct", "ytd_variance_pct"}
                             \cup OperatingFields
         /\ \A f \in OperatingFields : row[f] = value[f]
         /\ IsPercentOf(row.march_variance_pct, value.march_variance, value.march_budget)
         /\ IsPercentOf(row.ytd_variance_pct, value.ytd_variance, value.ytd_budget)
    ELSE IF type = "branch_breakdown"
    THEN /\ DOMAIN row = {"category", "line_item", "army_pct", "navy_pct", "usmc_pct"}
                             \cup BranchFields
         /\ \A f \in BranchFields : row[f] = value[f]
         /\ IsPercentOf(row.army_pct, value.army, value.armp_total)
         /\ IsPercentOf(row.navy_pct, value.navy, value.armp_total)
         /\ IsPercentOf(row.usmc_pct, value.usmc, value.armp_total)
    ELSE /\ DOMAIN row = {"category", "item", "amount"}
         /\ row.amount = value

\* C20: the rows of export_to_dataframes are as many as the items of the
\* CategoryMap over all categories, and every (category, item) pair has exactly
\* one row, which carries the item's field values for the statement type and
\* the percentages derived from them.
C20_RowPerItem ==
    (pc = "return" /\ call.fn = "export_to_dataframes") =>
        /\ Len(ret.rows) = Cardinality(ItemPairs)
        /\ \A pair \in ItemPairs :
               LET item == financial_data[pair[1]][pair[2]]
                   hits == {k \in DOMAIN ret.rows :
                               /\ ret.rows[k].category = pair[1]
                               /\ RowName(ret.rows[k]) = item[1]}
               IN  /\ Cardinality(hits) = 1
                   /\ \A k \in hits : RowCarries(ret.rows[k], detected, item[2])

\* a branch breakdown with two revenue items and the income line: three rows
C20_Witness ==
    /\ pc = "return"
    /\ call.fn = "export_to_dataframes"
    /\ detected = "branch_breakdown"
    /\ Len(financial_data.revenue) = 2
    /\ Len(financial_data.net_operating_income) = 1
    /\ Len(ret.rows) = 3
    /\ ret.rows[2].category = "revenue"
    /\ ret.rows[3].category = "net_operating_income"
    /\ ret.rows[2].armp_total # 0
    /\ ret.rows[2].army_pct # Zero

\* the sum of the amounts of the items at the positions S
RECURSIVE SumAmounts(_, _)
SumAmounts(items, S) ==
    IF S = {} THEN 0
    ELSE LET k == CHOOSE k \in S : TRUE
         IN  items[k][2] + SumAmounts(items, S \ {k})

\* the positions of the report lines that name the category
CategoryLines(category) == {k \in DOMAIN ret : ret[k].item = <<category>>}

\* C25: in the balance-sheet report every category with at least one item has
\* one section: its heading, one line per item with the item's amount, each item
\* once, and then the TOTAL line with the sum of exactly those amounts; a
\* category without items has no line in the report.
C25_SectionTotals ==
    (pc = "return" /\ call.fn = "generate_balance_sheet_summary_report") =>
        \A category \in DOMAIN financial_data :
            LET items == financial_data[category]
                n     == Len(items)
            IN  IF n = 0 THEN CategoryLines(category) = {}
                ELSE \E h \in DOMAIN ret :
                        /\ CategoryLines(category) = {h, h + n + 1}
                        /\ ret[h].template = "{category.upper()}:"
                        /\ \A i \in 1..n :
                               /\ ret[h + i].template = "  {item}: ${:,.2f}"
                               /\ ret[h + i].item = items[i][1]
                               /\ ret[h + i].args = <<[amount |-> items[i][2]]>>
                        /\ ret[h + n + 1].template = "  TOTAL {category.upper()}: ${:,.2f}"
                        /\ ret[h + n + 1].args = <<[amount |-> SumAmounts(items, 1..n)]>>

\* assets of 10 and -4 with a total of 6, one liability, no equity
C25_Witness ==
    /\ pc = "return"
    /\ call.fn = "generate_balance_sheet_summary_report"
    /\ detected = "balance_sheet"
    /\ Len(ret) = 12
    /\ Len(financial_data.assets) = 2
    /\ financial_data.assets[1][2] = 10 * Scale
    /\ financial_data.assets[2][2] = -4 * Scale
    /\ Len(financial_data.liabilities) = 1
    /\ financial_data.equity = EmptyDict
    /\ CategoryLines("equity") = {}
    /\ ret[7].template = "  TOTAL {category.upper()}: ${:,.2f}"
    /\ ret[7].args = <<[amount |-> 6 * Scale]>>

-----------------------------------------------------------------------------
(* SpecChanges: the caller changes a CategoryMap between calls of the derived *)
(* metrics                                                                    *)

InitChanges ==
    /\ pdf_pages = <<>>
    /\ statement_type = None
    /\ page_no = 0
    /\ detected \in {"operating_results", "branch_breakdown"}
    /\ financial_data = EmptyStatement
    /\ pc = "idle"
    /\ call = [fn |-> "none"]
    /\ ret = <<>>

\* the items the caller may write: category, name and values
ChangeTargets ==
    IF detected = "operating_results"
    THEN {"revenue"} \X {SlotsLabel, TotalRevenue} \X OperatingValues
    ELSE ({"revenue"} \X {SlotsLabel, TotalRevenue} \X BranchValues)
         \cup ({"net_operating_income"} \X {NetOperatingIncome} \X BranchIncomeValues)

\* del d[k]
DictDel(d, k) == SelectSeq(d, LAMBDA kv : kv[1] # k)

\* the caller's financial_data[category][item_name] = values
SetItem ==
    \E target \in ChangeTargets :
        /\ \/ DictHas(financial_data[target[1]], target[2])
           \/ Len(financial_data[target[1]]) < MaxItems
        /\ financial_data' =
               [financial_data EXCEPT ![target[1]] = DictSet(@, target[2], target[3])]
        /\ pc' = "idle"
        /\ UNCHANGED <<pdf_pages, statement_type, page_no, detected, call, ret>>

\* the caller's del financial_data[category][item_name]
DelItem ==
    \E target \in ChangeTargets :
        /\ DictHas(financial_data[target[1]], target[2])
        /\ financial_data' = [financial_data EXCEPT ![target[1]] = DictDel(@, target[2])]
        /\ pc' = "idle"
        /\ UNCHANGED <<pdf_pages, statement_type, page_no, detected, call, ret>>

NextChanges ==
    \/ SetItem
    \/ DelItem
    \/ CalculateVarianceAnalysis
    \/ CalculateBranchPerformance

SpecChanges == InitChanges /\ [][NextChanges]_vars

\* the analysis returned holds, for every category, the items with budget fields
\* in the CategoryMap's order, each with the percentages of its own values
VarianceReflectsMap ==
    \A category \in DOMAIN financial_data :
        LET items == BudgetItems(category)
        IN  /\ Len(ret[category]) = Len(items)
            /\ \A i \in DOMAIN items :
                   /\ ret[category][i][1] = items[i][1]
                   /\ IsPercentOf(ret[category][i][2].march_variance_pct,
                                  items[i][2].march_variance, items[i][2].march_budget)
                   /\ IsPercentOf(ret[category][i][2].ytd_variance_pct,
                                  items[i][2].ytd_variance, items[i][2].ytd_budget)

\* the performance returned holds the shares of the revenue items whose armp_total
\* is not 0, in the CategoryMap's order, and the margins of the CategoryMap
PerformanceReflectsMap ==
    LET shared == SelectSeq(financial_data.revenue,
                            LAMBDA kv : "armp_total" \in DOMAIN kv[2]
                                            /\ kv[2].armp_total # 0)
        shares == SelectSeq(ret, LAMBDA kv : kv[1] # OperatingMargin)
    IN  /\ Len(shares) = Len(shared)
        /\ \A i \in DOMAIN shared :
               /\ shares[i][1] = shared[i][1]
               /\ IsPercentOf(shares[i][2].army_share_pct,
                              shared[i][2].army, shared[i][2].armp_total)
               /\ IsPercentOf(shares[i][2].navy_share_pct,
                              shared[i][2].navy, shared[i][2].armp_total)
               /\ IsPercentOf(shares[i][2].usmc_share_pct,
                              shared[i][2].usmc, shared[i][2].armp_total)
        /\ MarginOver(FirstNamed({n \in RevenueNames :
                                     \/ Occurrences(n, Total) # {}
                                     \/ Occurrences(n, GamingMachineRevenue) # {}}))

ResultReflectsMap ==
    /\ call.fn = "calculate_variance_analysis" => VarianceReflectsMap
    /\ call.fn = "calculate_branch_performance" => PerformanceReflectsMap

\* C16: whatever changes and calls came before, a call of
\* calculate_variance_analysis or calculate_branch_performance leaves the
\* CategoryMap unchanged and returns the metrics of the CategoryMap as it is at
\* the call, never those of an earlier call.
C16_MetricsRecomputed ==
    [][pc' = "return" => financial_data' = financial_data /\ ResultReflectsMap']_vars

\* the analysis of a CategoryMap in which the caller has written two revenue items
C16_Witness ==
    /\ pc = "return"
    /\ call.fn = "calculate_variance_analysis"
    /\ detected = "operating_results"
    /\ Len(financial_data.revenue) = 2
    /\ financial_data.revenue[1][2].march_budget = 0
    /\ financial_data.revenue[2][2].march_budget = -2 * Scale
    /\ Len(ret.revenue) = 2
    /\ ret.revenue[1][2].march_variance_pct = [num |-> 0, den |-> 1]
    /\ ret.revenue[2][2].march_variance_pct = [num |-> -350, den |-> 1]

-----------------------------------------------------------------------------
(* SpecDirect: the extraction methods called on their own, next to the calls *)
(* of Spec                                                                    *)

DirectEntryPoints ==
    {"extract_operating_results", "extract_branch_breakdown", "_extract_balance_sheet_data"}

InitDirect ==
    /\ call \in [fn : EntryPoints \cup DirectEntryPoints, document : Documents]
    /\ pdf_pages = PageTexts(call.document)
    /\ statement_type = None
    /\ pc = "start"
    /\ page_no = 0
    /\ detected = None
    /\ financial_data = <<>>
    /\ ret = <<>>

\* the extraction method fn is called without detection: the result dictionary is
\* created and the page loop begins
CallExtraction(fn, loop, empty) ==
    /\ pc = "start"
    /\ call.fn = fn
    /\ financial_data' = empty
    /\ page_no' = 1
    /\ pc' = loop
    /\ UNCHANGED <<pdf_pages, statement_type, detected, call, ret>>

CallExtractOperatingResults ==
    CallExtraction("extract_operating_results", "operating", EmptyStatement)

CallExtractBranchBreakdown ==
    CallExtraction("extract_branch_breakdown", "branch", EmptyStatement)

CallExtractBalanceSheetData ==
    CallExtraction("_extract_balance_sheet_data", "balance", EmptyBalanceSheet)

NextDirect ==
    \/ Next
    \/ CallExtractOperatingResults
    \/ CallExtractBranchBreakdown
    \/ CallExtractBalanceSheetData

SpecDirect == InitDirect /\ [][NextDirect]_vars

\* every page of the document has the empty text
AllPagesEmpty == \A p \in DOMAIN pdf_pages : pdf_pages[p] = <<>>

\* C17: when the text of every page of the document is empty, the CategoryMap an
\* extraction builds and returns has no item in any of its categories.
C17_EmptyTextEmptyMap ==
    AllPagesEmpty /\ pc \in {"operating", "branch", "balance", "done", "returned"} =>
        /\ DOMAIN financial_data # {}
        /\ \A category \in DOMAIN financial_data : financial_data[category] = EmptyDict

\* extract_operating_results has gone through two pages without text
C17_Witness ==
    /\ pc = "done"
    /\ call.fn = "extract_operating_results"
    /\ call.document = <<PageBlank, PageBlank>>
    /\ pdf_pages = << <<>>, <<>> >>
    /\ page_no = 3
    /\ "net_revenue" \in DOMAIN financial_data
    /\ financial_data.net_revenue = EmptyDict
    /\ financial_data.revenue = EmptyDict

-----------------------------------------------------------------------------
(* The statement_type attribute *)

\* C22: once detect_statement_type has returned, and so after
\* extract_financial_data and generate_summary_report have returned, the
\* attribute statement_type holds the detected statement type.
C22_StatementTypeSet ==
    (/\ call.fn \in {"extract_financial_data", "generate_summary_report"}
     /\ pc \in {"dispatch", "done", "returned"}) =>
        statement_type = detected

-----------------------------------------------------------------------------
(* SpecExpenses: the operating report of statements with up to MaxExpenses *)
(* operating-expense items                                                 *)

MaxExpenses == 6

\* the name of the i-th expense item
ExpenseName(i) == <<"E", DigitSeq[i + 1]>>

\* YTD variances of 50%, -75% and 25% of the budget, and one without budget
ExpenseRecords ==
    {operating_record(Scaled(<<1, 2, -1, 6, 4, 2>>)),
     operating_record(Scaled(<<2, 4, -2, 1, 4, -3>>)),
     operating_record(Scaled(<<5, 4, 1, 9, 8, 2>>)),
     operating_record(Scaled(<<3, 0, 3, 5, 0, 5>>))}

ExpenseDicts ==
    UNION {{[i \in 1..n |-> <<ExpenseName(i), values[i]>>] : values \in [1..n -> ExpenseRecords]} :
              n \in 0..MaxExpenses}

InitExpenses ==
    /\ pdf_pages = <<>>
    /\ statement_type = None
    /\ page_no = 0
    /\ detected = "operating_results"
    /\ financial_data \in {[EmptyStatement EXCEPT !.operating_expenses = e] : e \in ExpenseDicts}
    /\ pc = "idle"
    /\ call = [fn |-> "none"]
    /\ ret = <<>>

NextExpenses == GenerateOperatingSummaryReport

SpecExpenses == InitExpenses /\ [][NextExpenses]_vars

\* the lines of the section "TOP EXPENSE VARIANCES (YTD)"
ListedExpenses == LinesOf(ret, "  {item}: {:+.1f}% (${:+,.2f})")

\* the expense items with a YTD budget that is not 0
BudgetedExpenses ==
    SelectSeq(financial_data.operating_expenses, LAMBDA kv : kv[2].ytd_budget # 0)

\* |variance / budget| of record a is at least that of record b (budgets not 0)
AbsPctAtLeast(a, b) ==
    Abs(a.ytd_variance) * Abs(b.ytd_budget) >= Abs(b.ytd_variance) * Abs(a.ytd_budget)

ExpenseRecord(name) == DictGet(financial_data.operating_expenses, name)

\* C24: the section lists at most 5 operating-expense items (all of them when
\* at most 5 have a budget), each once, only items whose ytd_budget is not 0,
\* each with its YTD variance percentage, in non-increasing order of the
\* absolute value of that percentage; no omitted item with a budget has a
\* larger absolute percentage than a listed one.
C24_TopExpenseVariances ==
    (pc = "return" /\ call.fn = "generate_operating_summary_report") =>
        LET listed == ListedExpenses
            names  == {listed[i].item : i \in DOMAIN listed}
        IN  /\ Len(listed) <= 5
            /\ Len(listed) = (IF Len(BudgetedExpenses) < 5 THEN Len(BudgetedExpenses) ELSE 5)
            /\ Cardinality(names) = Len(listed)
            /\ \A i \in DOMAIN listed :
                   /\ DictHas(financial_data.operating_expenses, listed[i].item)
                   /\ ExpenseRecord(listed[i].item).ytd_budget # 0
                   /\ IsPercentOf(listed[i].args[1].pct,
                                  ExpenseRecord(listed[i].item).ytd_variance,
                                  ExpenseRecord(listed[i].item).ytd_budget)
            /\ \A i, j \in DOMAIN listed :
                   i < j => AbsPctAtLeast(ExpenseRecord(listed[i].item),
                                          ExpenseRecord(listed[j].item))
            /\ \A k \in DOMAIN BudgetedExpenses :
                   BudgetedExpenses[k][1] \notin names =>
                       \A i \in DOMAIN listed :
                           AbsPctAtLeast(ExpenseRecord(listed[i].item), BudgetedExpenses[k][2])

\* six budgeted expenses, the last with the largest percentage in absolute
\* value: it is listed first and one of the smallest is left out
C24_Witness ==
    /\ pc = "return"
    /\ call.fn = "generate_operating_summary_report"
    /\ Len(BudgetedExpenses) = 6
    /\ Len(ListedExpenses) = 5
    /\ ListedExpenses[1].item = ExpenseName(6)
    /\ ListedExpenses[1].args[1].pct = [num |-> -75, den |-> 1]
    /\ ExpenseRecord(ExpenseName(1)).ytd_variance = 2 * Scale
    /\ ExpenseRecord(ExpenseName(1)).ytd_budget = 8 * Scale
    /\ \A i \in DOMAIN ListedExpenses : ListedExpenses[i].item # ExpenseName(1)

-----------------------------------------------------------------------------
(* SpecLayout: the extractor on documents of pages with irregular layouts: *)
(* amounts that do not convert, signs written before the digits or as      *)
(* parentheses, markers inside an item line, zero budgets and totals       *)

TokMinus500 == <<"-","5","0","0">>
TokParen == <<"(","1",",","2","3","4",".","5","6",")">>
Tok0 == <<"0">>
RentName == <<"R","e","n","t">>
DuesName == <<"D","u","e","s">>
TotalSlots == <<"T","o","t","a","l"," ","S","l","o","t","s">>

\* the first "Revenue" of the page is inside an item line
PageMidLine ==
    << TextLine(OperatingMarker),
       ItemLine(GamingLabel, <<Tok1, Tok2, Tok3, Tok4, Tok5, Tok6>>),
       TextLine(DirectNAFI),
       ItemLine(NetRevenue, <<Tok9, Tok8, Tok7, Tok6, Tok5, Tok4m>>) >>

\* an operating page with a line that does not convert, a short line, a
\* separator, signs before the digits and in parentheses, and budgets of 0
PageOperatingOdd ==
    << TextLine(OperatingMarker),
       TextLine(Revenue),
       ItemLine(SlotsLabel, <<TokComma, Tok1, Tok2, Tok3, Tok4, Tok5, Tok6>>),
       ItemLine(BingoLabel, <<Tok1, Tok2>>),
       TextLine(<<"-","-","-","-","-">>),
       ItemLine(RentName, <<TokMinus500, Tok1, Tok2, Tok3, Tok0, Tok5>>),
       TextLine(DirectNAFI),
       ItemLine(NetRevenue, <<TokComma, Tok1, Tok2, Tok3, Tok4, Tok5, Tok6>>),
       TextLine(OperatingExpenses),
       ItemLine(DuesName, <<TokParen, Tok0, Tok2, Tok3, Tok0, Tok4m>>),
       ItemLine(TotalOperatingExpenses, <<Tok2, Tok2, Tok2, Tok2, Tok2, Tok2>>) >>

\* a branch page with a line that does not convert, a total of 0 and a branch of
\* 0 in the total revenue
PageBranchOdd ==
    << TextLine(BranchMarker),
       TextLine(Revenue),
       ItemLine(DuesName, <<TokComma, Tok1, Tok2, Tok3>>),
       ItemLine(SlotsLabel, <<Tok0, Tok5, Tok4m, Tok0>>),
       ItemLine(TotalSlots, <<Tok5, Tok0, Tok3, Tok2>>),
       TextLine(DirectNAFI),
       ItemLine(NetOperatingIncome, <<TokParen, Tok3, Tok2, Tok1>>) >>

\* a balance sheet with amounts that do not convert or are not at the end
PageBalanceOdd ==
    << TextLine(BalanceSheetMarker),
       TextLine(ASSETS),
       ItemLine(<<"F","u","n","d">>, <<TokComma>>),
       ItemLine(DocumentedLabel, <<TokMinus500>>),
       ItemLine(DuesName, <<TokParen>>),
       ItemLine(BankName, <<Tok7>>),
       TextLine(LIABILITIES),
       ItemLine(<<"L","o","a","n","s">>, <<Tok4m>>) >>

\* no marker, tokens without digits
PageGarbage == << ItemLine(<<",">>, <<TokComma, <<"1",".","2",".","3">> >>) >>

LayoutPages ==
    {PageMidLine, PageOperatingOdd, PageBranchOdd, PageBalanceOdd, PageGarbage, PageBlank}

LayoutDocuments == UNION {[1..n -> LayoutPages] : n \in 1..MaxPages}

InitLayout ==
    /\ call \in [fn : EntryPoints, document : LayoutDocuments]
    /\ pdf_pages = PageTexts(call.document)
    /\ statement_type = None
    /\ pc = "start"
    /\ page_no = 0
    /\ detected = None
    /\ financial_data = <<>>
    /\ ret = <<>>

\* a derived-metric method called with the data extract_financial_data returned
CalculateMetric(fn, e, value) ==
    /\ pc = "done"
    /\ call.fn = "extract_financial_data"
    /\ IF e = None
       THEN /\ call' = [call EXCEPT !.fn = fn]
            /\ ret' = value
            /\ pc' = "returned"
            /\ UNCHANGED <<pdf_pages, statement_type, page_no, detected, financial_data>>
       ELSE Raise(e)

VarianceAnalysisOfData ==
    CalculateMetric("calculate_variance_analysis",
                    variance_analysis_exception(financial_data),
                    calculate_variance_analysis(financial_data))

BranchPerformanceOfData ==
    CalculateMetric("calculate_branch_performance",
                    branch_performance_exception(financial_data),
                    calculate_branch_performance(financial_data))

NextLayout ==
    \/ Next
    \/ VarianceAnalysisOfData
    \/ BranchPerformanceOfData

SpecLayout == InitLayout /\ [][NextLayout]_vars

\* the categories of the result of the extraction method of the type
CategoriesOf(type) ==
    IF type \in {"operating_results", "branch_breakdown"}
    THEN {StatementCategories[i] : i \in DOMAIN StatementCategories}
    ELSE IF type = "balance_sheet"
    THEN {BalanceSheetCategories[i] : i \in DOMAIN BalanceSheetCategories}
    ELSE {"unknown_data"}

\* C21: no exception leaves the extraction, the derived metrics or the report,
\* whatever the page texts and the type detected: no call ends raised, the
\* extraction returns the categories of the detected type (with the items that
\* could be parsed), and the metrics and the report are returned.
C21_NoFatalError ==
    /\ pc # "raised"
    /\ pc \in {"operating", "branch", "balance"} => page_no <= Len(pdf_pages) + 1
    /\ pc \in {"done", "returned"} => DOMAIN financial_data = CategoriesOf(detected)
    /\ (pc = "returned" /\ call.fn = "generate_summary_report") => Len(ret) >= 3

\* an operating page whose Slots line and Net Revenue line do not convert: the
\* report is returned, without these two
C21_Witness ==
    /\ pc = "returned"
    /\ call.fn = "generate_summary_report"
    /\ call.document = <<PageOperatingOdd>>
    /\ detected = "operating_results"
    /\ ~DictHas(financial_data.revenue, SlotsLabel)
    /\ financial_data.net_revenue = EmptyDict
    /\ DictHas(financial_data.operating_expenses, <<"D","u","e","s"," ","(","1",",","2","3","4",".","5","6",")">>)
    /\ Len(ret) > 3

-----------------------------------------------------------------------------
(* The sliced categories of a statement page                               *)

SlicedCategories == {"revenue", "direct_reimbursement", "operating_expenses"}

\* the leading label of a page line: all text before its first amount, trimmed
LeadingLabel(raw) ==
    LET line == strip(raw)
    IN  strip(SubSeq(line, 1, label_match(line)))

\* the leading labels of the lines of a page that hold a label and an amount
PageLineLabels(text) ==
    LET lines == split(text)
    IN  {LeadingLabel(lines[i]) : i \in {j \in DOMAIN lines : label_match(strip(lines[j])) # -1}}

\* C26: every item name stored under revenue, direct_reimbursement or
\* operating_expenses is the complete leading label of a line of a page of the
\* document: slicing at a start marker never shortens the label of the line
\* the marker occurs on.
C26_CompleteLeadingLabel ==
    (pc = "done" /\ detected \in {"operating_results", "branch_breakdown"}) =>
        \A c \in SlicedCategories :
            \A i \in DOMAIN financial_data[c] :
                \E p \in DOMAIN pdf_pages :
                    financial_data[c][i][1] \in PageLineLabels(pdf_pages[p])

\* the start marker and the end marker of the range sliced for a category
SlicedMarkers ==
    [revenue              |-> <<Revenue, DirectNAFI>>,
     direct_reimbursement |-> <<DirectNAFI, NetRevenue>>,
     operating_expenses   |-> <<OperatingExpenses, TotalOperatingExpenses>>]

\* the names of the lines of a page recorded as items of a category
SlicedNames(text, c, type) ==
    LET section == _extract_section(text, SlicedMarkers[c][1], SlicedMarkers[c][2])
        items   == IF type = "operating_results"
                   THEN _parse_budget_actual_items(section)
                   ELSE _parse_branch_items(section)
    IN  {items[i][1] : i \in DOMAIN items}

\* C27: the three ranges sliced from one page do not overlap: no line of a
\* page is recorded as an item under more than one of revenue,
\* direct_reimbursement and operating_expenses, also when an end marker is
\* missing from the page (a page of the vocabulary holds a label on one line).
C27_NoLineTwice ==
    (pc = "done" /\ detected \in {"operating_results", "branch_breakdown"}) =>
        \A p \in DOMAIN pdf_pages :
            \A c1, c2 \in SlicedCategories :
                c1 # c2 =>
                    \A name \in SlicedNames(pdf_pages[p], c1, detected) :
                        ~ /\ name \in SlicedNames(pdf_pages[p], c2, detected)
                          /\ DictHas(financial_data[c1], name)
                          /\ DictHas(financial_data[c2], name)

-----------------------------------------------------------------------------
(* Accumulation over the pages of a document                               *)

\* the step of the page loop of an extraction method
PageStep ==
    /\ pc \in {"operating", "branch", "balance"}
    /\ pc' = pc
    /\ page_no' = page_no + 1

\* C28: while the pages are processed no category loses an item name, and an
\* item or summary line recorded from an earlier page keeps its values over
\* every page whose text does not hold its name.
C28_ItemsKept ==
    [][PageStep =>
        \A c \in DOMAIN financial_data :
            \A i \in DOMAIN financial_data[c] :
                LET name == financial_data[c][i][1]
                IN  /\ DictHas(financial_data'[c], name)
                    /\ ~Contains(pdf_pages[page_no], name) =>
                           DictGet(financial_data'[c], name) = financial_data[c][i][2]]_vars

\* after the second page the Net Revenue line of the first page, which the
\* second page does not hold, is kept beside the items the second page added
C28_Witness ==
    /\ pc = "operating"
    /\ page_no = 3
    /\ call.document = <<PageOperatingA, PageOperatingB>>
    /\ DictHas(financial_data.net_revenue, NetRevenue)
    /\ ~Contains(pdf_pages[2], NetRevenue)
    /\ DictHas(financial_data.revenue, FeesLabel)
    /\ DictGet(financial_data.revenue, SlotsLabel).march_actual = 7 * Scale

-----------------------------------------------------------------------------
(* The sign of an amount                                                   *)

\* the lines of the document, as <<page, line>>
DocumentLines ==
    UNION {{<<p, i>> : i \in DOMAIN call.document[p]} : p \in DOMAIN call.document}

DocumentLine(pl) == call.document[pl[1]][pl[2]]

\* the amount tokens printed in the document
DocumentTokens ==
    UNION {{DocumentLine(pl).toks[k] : k \in DOMAIN DocumentLine(pl).toks} : pl \in DocumentLines}

\* an amount written with the minus before the digits, or in parentheses
WrittenNegative(tok) ==
    /\ tok # <<>>
    /\ \/ tok[1] = "-"
       \/ tok[1] = "(" /\ tok[Len(tok)] = ")"

\* the number the digits of a token spell
SpelledAmount(tok) ==
    to_float(replace_commas(SelectSeq(tok, LAMBDA ch : ch \notin {"-", "(", ")"}))).value

\* a token with a trailing minus that spells the negative amount
FromTrailingMinus(amount) ==
    \E tok \in DocumentTokens : endswith(tok, <<"-">>) /\ amount = -SpelledAmount(tok)

\* a stored amount is negative only when a token with a trailing minus spells it
NegativeOnlyTrailingMinus ==
    \A c \in DOMAIN financial_data :
        \A i \in DOMAIN financial_data[c] :
            IF detected = "balance_sheet"
            THEN financial_data[c][i][2] < 0 => FromTrailingMinus(financial_data[c][i][2])
            ELSE \A f \in DOMAIN financial_data[c][i][2] :
                     financial_data[c][i][2][f] < 0 => FromTrailingMinus(financial_data[c][i][2][f])

\* the first column of a statement record
FirstField(type) == IF type = "operating_results" THEN "march_actual" ELSE "armp_total"

\* the item a line parser stores for a line whose first amount is written
\* negative holds the digits of that amount, not negated, in its first column
LineItemsNonNegative ==
    \A pl \in DocumentLines :
        LET l == DocumentLine(pl)
        IN  (l.toks # <<>> /\ WrittenNegative(l.toks[1])) =>
                \A c \in SlicedCategories :
                    \A i \in DOMAIN financial_data[c] :
                        financial_data[c][i][1] = l.label \o <<" ">> \o l.toks[1] =>
                            /\ financial_data[c][i][2][FirstField(detected)] = SpelledAmount(l.toks[1])
                            /\ financial_data[c][i][2][FirstField(detected)] >= 0

\* the category and the key a summary line is stored under
SummaryPlace(id) ==
    IF id = NetRevenue THEN <<"net_revenue", NetRevenue>>
    ELSE IF id = NetOperatingIncome THEN <<"net_operating_income", NetOperatingIncome>>
    ELSE IF id = InterestRevenue THEN <<"other_income", InterestRevenue>>
    ELSE <<"net_income", NetIncome>>

\* the summary record located on the only line of the document that holds the
\* identifier, when the first amount of that line is written negative, holds
\* the digits of that amount, not negated, in its first column
SummariesNonNegative ==
    \A pl \in DocumentLines :
        LET l     == DocumentLine(pl)
            place == SummaryPlace(l.label)
        IN  (/\ l.label \in {SummaryIdentifiers[k] : k \in DOMAIN SummaryIdentifiers}
             /\ l.toks # <<>>
             /\ WrittenNegative(l.toks[1])
             /\ \A other \in DocumentLines :
                    Contains(Render(DocumentLine(other)), l.label) => other = pl
             /\ DictHas(financial_data[place[1]], place[2])) =>
                /\ DictGet(financial_data[place[1]], place[2])[FirstField(detected)] = SpelledAmount(l.toks[1])
                /\ DictGet(financial_data[place[1]], place[2])[FirstField(detected)] >= 0

\* the start marker and the end marker of the section of a balance-sheet category
BalanceSections ==
    [assets      |-> <<ASSETS, LIABILITIES>>,
     liabilities |-> <<LIABILITIES, EQUITY>>,
     equity      |-> <<EQUITY, TOTAL_LIABILITIES>>]

\* the balance-sheet lines of a category whose amount is written negative
WrittenNegativeLines(c) ==
    {pl \in DocumentLines :
        LET l       == DocumentLine(pl)
            section == split(_extract_section(pdf_pages[pl[1]],
                                              BalanceSections[c][1], BalanceSections[c][2]))
        IN  /\ Len(l.toks) = 1
            /\ WrittenNegative(l.toks[1])
            /\ \E k \in DOMAIN section : section[k] = Render(l)}

\* C29 as stated: an amount is negative only with a trailing minus, and an
\* amount written with a leading minus or in parentheses is stored as a
\* non-negative value by the line-item parser, the summary-line locator and
\* the balance-sheet parser alike.
C29_SignsAlike ==
    (pc = "done" /\ detected \in {"operating_results", "branch_breakdown", "balance_sheet"}) =>
        /\ NegativeOnlyTrailingMinus
        /\ detected # "balance_sheet" => LineItemsNonNegative /\ SummariesNonNegative
        /\ detected = "balance_sheet" =>
               \A c \in DOMAIN BalanceSections :
                   \A pl \in WrittenNegativeLines(c) :
                       \E i \in DOMAIN financial_data[c] :
                           /\ financial_data[c][i][2] = SpelledAmount(DocumentLine(pl).toks[1])
                           /\ financial_data[c][i][2] >= 0

\* C29, amended: an amount is negative only with a trailing minus; an amount
\* written with a leading minus or in parentheses is stored as a non-negative
\* value by the line-item parser and the summary-line locator, and the
\* balance-sheet parser stores nothing for a line whose amount is written so.
C29_SignsByParser ==
    (pc = "done" /\ detected \in {"operating_results", "branch_breakdown", "balance_sheet"}) =>
        /\ NegativeOnlyTrailingMinus
        /\ detected # "balance_sheet" => LineItemsNonNegative /\ SummariesNonNegative
        /\ detected = "balance_sheet" =>
               \A c \in DOMAIN BalanceSections :
                   \A pl \in WrittenNegativeLines(c) :
                       \A i \in DOMAIN financial_data[c] :
                           /\ financial_data[c][i][1] # DocumentLine(pl).label
                           /\ financial_data[c][i][1] #
                                  DocumentLine(pl).label \o <<" ">> \o DocumentLine(pl).toks[1]
                           /\ financial_data[c][i][2] # SpelledAmount(DocumentLine(pl).toks[1])

\* an operating page is extracted: "Rent -500 ..." and "Dues (1,234.56) ..."
\* are stored with 500 and 1234.56 in the first column, and the only negative
\* amount is the one printed "4-"
C29_Witness ==
    /\ pc = "done"
    /\ detected = "operating_results"
    /\ call.document = <<PageOperatingOdd>>
    /\ DictGet(financial_data.revenue, RentName \o <<" ">> \o TokMinus500).march_actual = 500 * Scale
    /\ DictGet(financial_data.operating_expenses, DuesName \o <<" ">> \o TokParen).march_actual
           = 1234 * Scale + 56 * (Scale \div 100)
    /\ DictGet(financial_data.operating_expenses, DuesName \o <<" ">> \o TokParen).ytd_variance
           = -4 * Scale

=============================================================================
